---- MODULE Spec2Model ----
(***************************************************************************)
(* Model of the Civitai manager's file-layout core                         *)
(* (apps/civitai-manager/src/modules/civitai/file-layout.ts), of the       *)
(* media identifier recovery, path extraction and record upkeep in         *)
(* db/crud/modelVersion.ts, of the unified endpoints of civitai-api and    *)
(* of the settings page (ui/pages/settings.tsx).                           *)
(*                                                                         *)
(* Text is modelled as a sequence of one-character strings, so that path   *)
(* joining, normalisation, number formatting and number parsing are        *)
(* computed character by character, as node:path and the JavaScript        *)
(* runtime compute them.                                                   *)
(***************************************************************************)
EXTENDS Integers, Sequences, FiniteSets, TLC

VARIABLES
    platform,   \* "win32" or "posix": selects the node:path implementation
    sanitizer,  \* which behaviour the sanitize-basename dependency has
    basePath,   \* FileLayoutBuilder.basePath (normalised in the constructor)
    input,      \* the arguments the operations of a run are called with
    pc,         \* position of the running operation
    ret,        \* the result of the last completed call
    prev,       \* kind and value of the result of the call completed before it
    disk,       \* filesystem state seen by the disk checks
    db,         \* images connected to the model version in the database
    acc         \* local variables of the running loop

vars == <<platform, sanitizer, basePath, input, pc, ret, prev, disk, db, acc>>

\* ------------------------------------------------------------------ bounds

MaxId == 2          \* identifiers range over 1..MaxId (plus the documented examples)
MaxNameLen == 2     \* longest generated file display name

\* ------------------------------------------------------------------ text

DigitChars == <<"0", "1", "2", "3", "4", "5", "6", "7", "8", "9">>

IsDigit(c) == c \in {DigitChars[i] : i \in 1..10}

DigitVal(c) == (CHOOSE i \in 1..10 : DigitChars[i] = c) - 1

\* Number.prototype.toString() of a non-negative integer
RECURSIVE toString(_)
toString(n) ==
    IF n < 10 THEN <<DigitChars[n + 1]>>
    ELSE toString(n \div 10) \o <<DigitChars[(n % 10) + 1]>>

\* all texts over the alphabet cs of length at most n
RECURSIVE StringsUpTo(_, _)
StringsUpTo(cs, n) ==
    IF n = 0 THEN {<<>>}
    ELSE LET shorter == StringsUpTo(cs, n - 1)
         IN  shorter \cup {Append(s, c) : s \in shorter, c \in cs}

EndsWith(s, suffix) ==
    /\ Len(s) >= Len(suffix)
    /\ SubSeq(s, Len(s) - Len(suffix) + 1, Len(s)) = suffix

StartsWith(s, prefix) ==
    /\ Len(s) >= Len(prefix)
    /\ SubSeq(s, 1, Len(prefix)) = prefix

\* ------------------------------------------------------------------ node:path

Platforms == {"win32", "posix"}

\* path.sep
Sep(plat) == IF plat = "win32" THEN "\\" ELSE "/"

\* isPathSeparator (win32 accepts both slashes) / isPosixPathSeparator
IsPathSeparator(plat, c) ==
    IF plat = "win32" THEN c \in {"/", "\\"} ELSE c = "/"

\* the segments between separators, empty ones included
SplitSegments(plat, p) ==
    LET seps == {i \in 1..Len(p) : IsPathSeparator(plat, p[i])}
        \* position of the k-th separator; 0 before the first, Len(p) + 1 after the last
        SepAt(k) == IF k = 0 THEN 0
                    ELSE IF k > Cardinality(seps) THEN Len(p) + 1
                    ELSE CHOOSE i \in seps : Cardinality({j \in seps : j < i}) = k - 1
    IN  [k \in 1..(Cardinality(seps) + 1) |-> SubSeq(p, SepAt(k - 1) + 1, SepAt(k) - 1)]

\* normalizeString: resolves "." and ".." segments, drops empty segments
RECURSIVE NormalizeString(_, _, _)
NormalizeString(segs, allowAboveRoot, res) ==
    IF segs = <<>> THEN res
    ELSE LET s == Head(segs)
             next ==
               IF s = <<>> \/ s = <<".">> THEN res
               ELSE IF s = <<".", ".">>
               THEN IF res # <<>> /\ res[Len(res)] # <<".", ".">>
                    THEN SubSeq(res, 1, Len(res) - 1)
                    ELSE IF allowAboveRoot THEN Append(res, s) ELSE res
               ELSE Append(res, s)
         IN  NormalizeString(Tail(segs), allowAboveRoot, next)

RECURSIVE JoinSegments(_, _)
JoinSegments(segs, sep) ==
    IF segs = <<>> THEN <<>>
    ELSE IF Len(segs) = 1 THEN segs[1]
    ELSE segs[1] \o <<sep>> \o JoinSegments(Tail(segs), sep)

IsAbsolute(plat, p) == p # <<>> /\ IsPathSeparator(plat, p[1])

\* path.normalize, for paths without a drive letter or UNC prefix
normalize(plat, p) ==
    IF p = <<>> THEN <<".">>
    ELSE LET abs == IsAbsolute(plat, p)
             trailing == IsPathSeparator(plat, p[Len(p)])
             body == JoinSegments(
                       NormalizeString(SplitSegments(plat, p), ~abs, <<>>), Sep(plat))
             tail == IF body = <<>> /\ ~abs THEN <<".">> ELSE body
             tail2 == IF tail # <<>> /\ trailing THEN Append(tail, Sep(plat)) ELSE tail
         IN  IF abs THEN <<Sep(plat)>> \o tail2 ELSE tail2

\* path.join: the non-empty arguments joined by the separator, then normalised
join(plat, parts) ==
    LET nonEmpty == SelectSeq(parts, LAMBDA x : x # <<>>)
    IN  IF nonEmpty = <<>> THEN <<".">>
        ELSE normalize(plat, JoinSegments(nonEmpty, Sep(plat)))

\* the named segments of a path: "." and empty segments carry no name
Segments(plat, p) ==
    SelectSeq(SplitSegments(plat, p), LAMBDA s : s # <<>> /\ s # <<".">>)

\* ------------------------------------------------------------------ file-layout.ts

ApiInfoSuffix == <<".", "a", "p", "i", "-", "i", "n", "f", "o", ".", "j", "s", "o", "n">>

MediaDirName == <<"m", "e", "d", "i", "a">>

\* mutant: the id and the suffix joined by "_" instead of "."
getApiInfoJsonFileName_Underscore(id) == toString(id) \o <<"_">> \o Tail(ApiInfoSuffix)

getApiInfoJsonFileName(id) == toString(id) \o ApiInfoSuffix

\* new FileLayoutBuilder(basePath)
FileLayoutBuilder(plat, baseArg) == normalize(plat, baseArg)

getModelPath(plat, base, modelType, modelId) ==
    join(plat, <<base, modelType, toString(modelId)>>)

getVersionPath(plat, base, modelType, modelId, versionId) ==
    join(plat, <<getModelPath(plat, base, modelType, modelId), toString(versionId)>>)

\* mutant: the media directory placed in the model directory
getVersionMediaPath_InModelDir(plat, base, modelType, modelId, versionId) ==
    join(plat, <<getModelPath(plat, base, modelType, modelId), MediaDirName>>)

getVersionMediaPath(plat, base, modelType, modelId, versionId) ==
    join(plat, <<getVersionPath(plat, base, modelType, modelId, versionId), MediaDirName>>)

getModelApiInfoPath(plat, base, modelType, modelId) ==
    join(plat, <<getModelPath(plat, base, modelType, modelId),
                 getApiInfoJsonFileName(modelId)>>)

getVersionApiInfoPath(plat, base, modelType, modelId, versionId) ==
    join(plat, <<getVersionPath(plat, base, modelType, modelId, versionId),
                 getApiInfoJsonFileName(versionId)>>)

\* ------------------------------------------------------------------ sanitize-basename

\* characters no file name may hold on either platform
IsReservedChar(c) == c \in {"/", "\\"}

ReplacementChar == "_"

\* the last non-empty segment of a name, on either platform's separators
LastSegment(name) ==
    LET kept == {i \in 1..Len(name) : ~IsReservedChar(name[i])}
    IN  IF kept = {} THEN <<>>
        ELSE LET last == CHOOSE i \in kept : \A j \in kept : j <= i
                 cuts == {i \in 1..last : IsReservedChar(name[i])}
                 first == IF cuts = {} THEN 1
                          ELSE (CHOOSE i \in cuts : \A j \in cuts : j <= i) + 1
             IN  SubSeq(name, first, last)

\* The dependency's source is not part of the repository; its test
\* (file-layout.test.ts:89-98) fixes that separators do not survive, that the
\* extension does, and that ordinary names are unchanged.  The three ways a
\* basename sanitizer meets this are all allowed.
Sanitizers == {"replace", "strip", "basename"}

\* mutant: the display name used as it is
sanitizeFileName_Identity(impl, fileName) == fileName

\* sanitizeFileName(fileName) = sanitize(fileName)
sanitizeFileName(impl, fileName) ==
    CASE impl = "replace" ->
           [i \in 1..Len(fileName) |->
              IF IsReservedChar(fileName[i]) THEN ReplacementChar ELSE fileName[i]]
      [] impl = "strip" ->
           SelectSeq(fileName, LAMBDA c : ~IsReservedChar(c))
      [] impl = "basename" ->
           LastSegment(fileName)

\* mutant: the file id follows the name instead of leading it
getModelFilePath_IdLast(plat, impl, base, modelType, modelId, versionId, file) ==
    join(plat, <<join(plat, <<join(plat, <<base, modelType, toString(modelId)>>),
                              toString(versionId)>>),
                 sanitizeFileName(impl, file.name) \o <<"_">> \o toString(file.id)>>)

\* mutant: the file id left out of the file name
getModelFilePath_NoId(plat, impl, base, modelType, modelId, versionId, file) ==
    join(plat, <<join(plat, <<join(plat, <<base, modelType, toString(modelId)>>),
                              toString(versionId)>>),
                 sanitizeFileName(impl, file.name)>>)

\* FileLayoutBuilder.getModelFilePath
getModelFilePath(plat, impl, base, modelType, modelId, versionId, file) ==
    LET sanitizedName == sanitizeFileName(impl, file.name)
        fileName == toString(file.id) \o <<"_">> \o sanitizedName
    IN  join(plat, <<getVersionPath(plat, base, modelType, modelId, versionId), fileName>>)

\* the id that stands for the number NaN, which no id equals
NaNId == 0 - 1

\* a === b on two numbers
StrictEquals(a, b) == a # NaNId /\ b # NaNId /\ a = b

\* mutant: the last match instead of the first
FindIndexFrom_Last(items, id, i) ==
    LET matches == {k \in i..Len(items) : StrictEquals(items[k].id, id)}
    IN  IF matches = {} THEN 0 ELSE CHOOSE k \in matches : \A h \in matches : h <= k

\* model.modelVersions.find(v => v.id === versionId): index of the first match, 0 if none
RECURSIVE FindIndexFrom(_, _, _)
FindIndexFrom(items, id, i) ==
    IF i > Len(items) THEN 0
    ELSE IF StrictEquals(items[i].id, id) THEN i
    ELSE FindIndexFrom(items, id, i + 1)

Ok(v) == [ok |-> TRUE, value |-> v]

Err(e) == [ok |-> FALSE, error |-> e]

\* mutant: the error names the searched id only
findVersion_NoOwner(model, versionId) ==
    LET i == FindIndexFrom(model.modelVersions, versionId, 1)
    IN  IF i = 0
        THEN Err([what |-> "version", owner |-> versionId, searched |-> versionId])
        ELSE Ok([id    |-> model.modelVersions[i].id,
                 files |-> model.modelVersions[i].files,
                 images |-> model.modelVersions[i].images])

\* ModelLayout.findVersion
findVersion(model, versionId) ==
    LET i == FindIndexFrom(model.modelVersions, versionId, 1)
    IN  IF i = 0
        THEN Err([what |-> "version", owner |-> model.id, searched |-> versionId])
        ELSE Ok([id    |-> model.modelVersions[i].id,
                 files |-> model.modelVersions[i].files,
                 images |-> model.modelVersions[i].images])

\* new VersionLayout(model, version, basePath): the builder it holds
VersionLayout(plat, model, version, baseArg) ==
    [model |-> model, version |-> version, builder |-> FileLayoutBuilder(plat, baseArg)]

\* new ModelLayout(model, basePath)
ModelLayout(plat, model, baseArg) ==
    [model |-> model, builder |-> FileLayoutBuilder(plat, baseArg)]

VersionLayout_getVersionPath(plat, vl) ==
    getVersionPath(plat, vl.builder, vl.model.type, vl.model.id, vl.version.id)

VersionLayout_getApiInfoPath(plat, vl) ==
    getVersionApiInfoPath(plat, vl.builder, vl.model.type, vl.model.id, vl.version.id)

VersionLayout_getMediaPath(plat, vl) ==
    getVersionMediaPath(plat, vl.builder, vl.model.type, vl.model.id, vl.version.id)

ModelLayout_getModelPath(plat, ml) ==
    getModelPath(plat, ml.builder, ml.model.type, ml.model.id)

ModelLayout_getApiInfoPath(plat, ml) ==
    getModelApiInfoPath(plat, ml.builder, ml.model.type, ml.model.id)

\* ModelLayout.getVersionLayout: the VersionLayout is built from builder.getBasePath()
getVersionLayout(plat, ml, versionId) ==
    LET versionResult == findVersion(ml.model, versionId)
    IN  IF ~versionResult.ok THEN Err(versionResult.error)
        ELSE Ok(VersionLayout(plat, ml.model, versionResult.value, ml.builder))

\* legacy API
getModelIdPath(plat, baseArg, modelType, modelId) ==
    getModelPath(plat, FileLayoutBuilder(plat, baseArg), modelType, modelId)

getModelIdApiInfoJsonPath(plat, baseArg, modelType, modelId) ==
    getModelApiInfoPath(plat, FileLayoutBuilder(plat, baseArg), modelType, modelId)

getModelVersionPath(plat, baseArg, modelType, modelId, versionId) ==
    getVersionPath(plat, FileLayoutBuilder(plat, baseArg), modelType, modelId, versionId)

\* mutant: the version's metadata file named after the model
getModelVersionApiInfoJsonPath_ModelName(plat, baseArg, modelType, modelId, modelVersionId) ==
    join(plat, <<join(plat, <<join(plat, <<normalize(plat, baseArg), modelType,
                                           toString(modelId)>>),
                              toString(modelVersionId)>>),
                 getApiInfoJsonFileName(modelId)>>)

getModelVersionApiInfoJsonPath(plat, baseArg, modelType, modelId, modelVersionId) ==
    getVersionApiInfoPath(plat, FileLayoutBuilder(plat, baseArg), modelType, modelId,
                          modelVersionId)

\* ------------------------------------------------------------------ inputs

Checkpoint == <<"C", "h", "e", "c", "k", "p", "o", "i", "n", "t">>

LORA == <<"L", "O", "R", "A">>

ModelTypes == {Checkpoint, LORA}

Ids == 1..MaxId

\* base directories as configured in the settings: absolute, with a trailing
\* separator, relative, with the other platform's separator, with segments to resolve
Bases ==
    { <<"/", "b">>,
      <<"/", "b", "/">>,
      <<"b", "\\", "c">>,
      <<".", "/", "b", "/", "/", "c">>,
      <<".", ".", "/", "d">> }

NoCall == [op |-> "none", kind |-> "none", val |-> <<>>]

Unused == "unused"

\* ------------------------------------------------------------------ directory paths

\* a model holding the one version the paths are asked for
DirsInput ==
    { [baseArg |-> b,
       model |-> [type |-> t, id |-> m,
                  modelVersions |-> << [id |-> v, files |-> <<>>, images |-> <<>>] >>],
       versionId |-> v] :
      b \in Bases, t \in ModelTypes, m \in Ids, v \in Ids }

DirsInit ==
    /\ platform \in Platforms
    /\ input \in DirsInput
    /\ basePath = FileLayoutBuilder(platform, input.baseArg)
    /\ sanitizer = Unused
    /\ pc = "ready"
    /\ ret = NoCall
    /\ prev = [kind |-> "none", val |-> <<>>]
    /\ disk = Unused
    /\ db = Unused
    /\ acc = Unused

\* a call returns: its result becomes the last result
Return(op, kind, val) ==
    /\ ret' = [op |-> op, kind |-> kind, val |-> val]
    /\ prev' = [kind |-> ret.kind, val |-> ret.val]
    /\ UNCHANGED <<platform, sanitizer, basePath, input, pc, disk, db, acc>>

TheVersion == input.model.modelVersions[1]

Call_getModelPath ==
    Return("getModelPath", "model",
           getModelPath(platform, basePath, input.model.type, input.model.id))

Call_getVersionPath ==
    Return("getVersionPath", "version",
           getVersionPath(platform, basePath, input.model.type, input.model.id,
                          input.versionId))

Call_getVersionMediaPath ==
    Return("getVersionMediaPath", "media",
           getVersionMediaPath(platform, basePath, input.model.type, input.model.id,
                               input.versionId))

Call_getModelApiInfoPath ==
    Return("getModelApiInfoPath", "modelInfo",
           getModelApiInfoPath(platform, basePath, input.model.type, input.model.id))

Call_getVersionApiInfoPath ==
    Return("getVersionApiInfoPath", "versionInfo",
           getVersionApiInfoPath(platform, basePath, input.model.type, input.model.id,
                                 input.versionId))

Call_VersionLayout_getVersionPath ==
    Return("VersionLayout.getVersionPath", "version",
           VersionLayout_getVersionPath(platform,
               VersionLayout(platform, input.model, TheVersion, input.baseArg)))

Call_VersionLayout_getApiInfoPath ==
    Return("VersionLayout.getApiInfoPath", "versionInfo",
           VersionLayout_getApiInfoPath(platform,
               VersionLayout(platform, input.model, TheVersion, input.baseArg)))

Call_VersionLayout_getMediaPath ==
    Return("VersionLayout.getMediaPath", "media",
           VersionLayout_getMediaPath(platform,
               VersionLayout(platform, input.model, TheVersion, input.baseArg)))

Call_ModelLayout_getModelPath ==
    Return("ModelLayout.getModelPath", "model",
           ModelLayout_getModelPath(platform,
               ModelLayout(platform, input.model, input.baseArg)))

Call_ModelLayout_getApiInfoPath ==
    Return("ModelLayout.getApiInfoPath", "modelInfo",
           ModelLayout_getApiInfoPath(platform,
               ModelLayout(platform, input.model, input.baseArg)))

\* modelLayout.getVersionLayout(versionId), then a path method of the layout it returns
Call_getVersionLayout ==
    LET r == getVersionLayout(platform,
                 ModelLayout(platform, input.model, input.baseArg), input.versionId)
    IN  /\ r.ok
        /\ \/ Return("getVersionLayout.getVersionPath", "version",
                     VersionLayout_getVersionPath(platform, r.value))
           \/ Return("getVersionLayout.getApiInfoPath", "versionInfo",
                     VersionLayout_getApiInfoPath(platform, r.value))
           \/ Return("getVersionLayout.getMediaPath", "media",
                     VersionLayout_getMediaPath(platform, r.value))

\* the legacy functions take the base directory as an argument: the configured
\* one, or one a builder has already normalised
LegacyBaseArgs == {input.baseArg, basePath}

Call_getModelIdPath ==
    \E b \in LegacyBaseArgs :
        Return("getModelIdPath", "model",
               getModelIdPath(platform, b, input.model.type, input.model.id))

Call_getModelIdApiInfoJsonPath ==
    \E b \in LegacyBaseArgs :
        Return("getModelIdApiInfoJsonPath", "modelInfo",
               getModelIdApiInfoJsonPath(platform, b, input.model.type, input.model.id))

Call_getModelVersionPath ==
    \E b \in LegacyBaseArgs :
        Return("getModelVersionPath", "version",
               getModelVersionPath(platform, b, input.model.type, input.model.id,
                                   input.versionId))

Call_getModelVersionApiInfoJsonPath ==
    \E b \in LegacyBaseArgs :
        Return("getModelVersionApiInfoJsonPath", "versionInfo",
               getModelVersionApiInfoJsonPath(platform, b, input.model.type,
                                              input.model.id, input.versionId))

DirsNext ==
    \/ Call_getModelPath
    \/ Call_getVersionPath
    \/ Call_getVersionMediaPath
    \/ Call_getModelApiInfoPath
    \/ Call_getVersionApiInfoPath
    \/ Call_VersionLayout_getVersionPath
    \/ Call_VersionLayout_getApiInfoPath
    \/ Call_VersionLayout_getMediaPath
    \/ Call_ModelLayout_getModelPath
    \/ Call_ModelLayout_getApiInfoPath
    \/ Call_getVersionLayout
    \/ Call_getModelIdPath
    \/ Call_getModelIdApiInfoJsonPath
    \/ Call_getModelVersionPath
    \/ Call_getModelVersionApiInfoJsonPath

SpecDirs == DirsInit /\ [][DirsNext]_vars

\* the path one level below parent, named seg
Child(plat, parent, seg) == parent \o <<Sep(plat)>> \o seg

BuilderOps ==
    {"getModelPath", "getVersionPath", "getVersionMediaPath", "getModelApiInfoPath",
     "getVersionApiInfoPath"}

\* C2: the builder's paths nest: getModelPath is the normalised base followed by
\* the segments T and M; getVersionPath is getModelPath/V; getVersionMediaPath is
\* getVersionPath/media; the metadata paths are <M>.api-info.json in the model
\* directory and <V>.api-info.json in the version directory.
C2_PathsNest ==
    LET T == input.model.type
        M == input.model.id
        V == input.versionId
        modelPath == getModelPath(platform, basePath, T, M)
        versionPath == getVersionPath(platform, basePath, T, M, V)
    IN  ret.op \in BuilderOps =>
          /\ ret.kind = "model" =>
               /\ Segments(platform, ret.val)
                    = Segments(platform, basePath) \o <<T, toString(M)>>
               /\ IsAbsolute(platform, ret.val) = IsAbsolute(platform, basePath)
               /\ ret.val = (IF IsAbsolute(platform, basePath) THEN <<Sep(platform)>>
                             ELSE <<>>)
                            \o JoinSegments(Segments(platform, ret.val), Sep(platform))
          /\ ret.kind = "version" => ret.val = Child(platform, modelPath, toString(V))
          /\ ret.kind = "media" => ret.val = Child(platform, versionPath, MediaDirName)
          /\ ret.kind = "modelInfo" =>
               ret.val = Child(platform, modelPath, toString(M) \o ApiInfoSuffix)
          /\ ret.kind = "versionInfo" =>
               ret.val = Child(platform, versionPath, toString(V) \o ApiInfoSuffix)

\* the media path of a version whose id differs from the model's, under a base
\* directory the constructor had to normalise
C2_Witness ==
    /\ ret.op = "getVersionMediaPath"
    /\ input.model.id # input.versionId
    /\ basePath # input.baseArg
    /\ prev.kind = "modelInfo"

\* C4: whichever entry point computes a path of one kind (builder method, layout
\* facade, legacy function) for the same base directory, model and version, and
\* whatever was called before, the path returned is the same.
C4_EntryPointIndependent ==
    (ret.kind # "none" /\ prev.kind = ret.kind) => ret.val = prev.val

\* a legacy function called after another entry point of the same kind
C4_Witness ==
    /\ ret.op = "getModelVersionApiInfoJsonPath"
    /\ prev.kind = "versionInfo"
    /\ input.model.id # input.versionId
    /\ basePath # input.baseArg

\* ------------------------------------------------------------------ file paths

NameChars == {"a", ".", "/", "\\"}

FileNames == StringsUpTo(NameChars, MaxNameLen)

ExampleFileName ==
    <<"t", "e", "s", "t", " ", "m", "o", "d", "e", "l", ".",
      "s", "a", "f", "e", "t", "e", "n", "s", "o", "r", "s">>

\* the documented scenario: Checkpoint, model 456, version 789, file 123
ExampleFileInput ==
    [modelType |-> Checkpoint, modelId |-> 456, versionId |-> 789,
     file |-> [id |-> 123, name |-> ExampleFileName]]

FileBases == { <<"/", "b", "/">>, <<"b", "\\", "c">> }

FileInputs ==
    { [modelType |-> t, modelId |-> m, versionId |-> v, file |-> [id |-> f, name |-> n]] :
      t \in ModelTypes, m \in Ids, v \in Ids, f \in Ids, n \in FileNames }

FileInit ==
    /\ platform \in Platforms
    /\ sanitizer \in Sanitizers
    /\ \E b \in FileBases, i \in FileInputs \cup {ExampleFileInput} :
          /\ basePath = FileLayoutBuilder(platform, b)
          /\ input = [baseArg |-> b] @@ i
    /\ pc = "ready"
    /\ ret = NoCall
    /\ prev = [kind |-> "none", val |-> <<>>]
    /\ disk = Unused
    /\ db = Unused
    /\ acc = Unused

File_getVersionPath ==
    /\ ret' = [op |-> "getVersionPath", kind |-> "version",
               val |-> getVersionPath(platform, basePath, input.modelType,
                                      input.modelId, input.versionId)]
    /\ UNCHANGED <<platform, sanitizer, basePath, input, pc, prev, disk, db, acc>>

File_getModelFilePath ==
    /\ ret' = [op |-> "getModelFilePath", kind |-> "file",
               val |-> getModelFilePath(platform, sanitizer, basePath, input.modelType,
                                        input.modelId, input.versionId, input.file)]
    /\ UNCHANGED <<platform, sanitizer, basePath, input, pc, prev, disk, db, acc>>

FileNext ==
    \/ File_getVersionPath
    \/ File_getModelFilePath

SpecFile == FileInit /\ [][FileNext]_vars

\* a display name has an extension when it ends in a dot followed by at least one
\* ordinary character
HasExtension(name) ==
    \E i \in 1..(Len(name) - 1) :
        /\ name[i] = "."
        /\ \A j \in (i + 1)..Len(name) : name[j] # "." /\ ~IsReservedChar(name[j])

Extension(name) ==
    LET i == CHOOSE k \in 1..(Len(name) - 1) :
                 /\ name[k] = "."
                 /\ \A j \in (k + 1)..Len(name) : name[j] # "." /\ ~IsReservedChar(name[j])
    IN  SubSeq(name, i, Len(name))

FileVersionPath ==
    getVersionPath(platform, basePath, input.modelType, input.modelId, input.versionId)

\* C1: getModelFilePath returns the version directory followed by the single
\* segment F_sanitizeFileName(N); in the documented scenario the segments after
\* the base directory are Checkpoint, 456, 789, "123_test model.safetensors".
C1_FilePath ==
    ret.op = "getModelFilePath" =>
      LET seg == toString(input.file.id) \o <<"_">>
                   \o sanitizeFileName(sanitizer, input.file.name)
      IN  /\ ret.val = Child(platform, FileVersionPath, seg)
          /\ Segments(platform, ret.val) = Segments(platform, FileVersionPath) \o <<seg>>
          /\ [modelType |-> input.modelType, modelId |-> input.modelId,
              versionId |-> input.versionId, file |-> input.file] = ExampleFileInput
               => Segments(platform, ret.val)
                    = Segments(platform, basePath)
                        \o <<Checkpoint, <<"4", "5", "6">>, <<"7", "8", "9">>,
                             <<"1", "2", "3", "_">> \o ExampleFileName>>

\* the documented scenario has been computed
C1_Witness ==
    /\ ret.op = "getModelFilePath"
    /\ input.file = ExampleFileInput.file
    /\ input.modelId = 456
    /\ input.versionId = 789

\* C5: whatever the display name holds, the file path is a direct child of the
\* version directory (one more segment, which is neither "." nor ".."), and a
\* name's extension is still the end of the path.
C5_DirectChild ==
    ret.op = "getModelFilePath" =>
      LET parent == FileVersionPath \o <<Sep(platform)>>
          leaf == SubSeq(ret.val, Len(parent) + 1, Len(ret.val))
      IN  /\ StartsWith(ret.val, parent)
          /\ leaf # <<>>
          /\ leaf # <<".">>
          /\ leaf # <<".", ".">>
          /\ \A i \in 1..Len(leaf) : ~IsPathSeparator(platform, leaf[i])
          /\ Len(Segments(platform, ret.val)) = Len(Segments(platform, FileVersionPath)) + 1
          /\ HasExtension(input.file.name) =>
               /\ EndsWith(sanitizeFileName(sanitizer, input.file.name),
                           Extension(input.file.name))
               /\ EndsWith(ret.val, Extension(input.file.name))

\* a display name that starts with a separator, on the platform where both
\* slashes separate
C5_Witness ==
    /\ ret.op = "getModelFilePath"
    /\ platform = "win32"
    /\ input.file.name = <<"\\", "a">>

\* ------------------------------------------------------------------ two file paths

MaxInjId == 2       \* identifiers of the two tuples compared range over 1..MaxInjId

InjNames ==
    { <<"a">>, <<"2", "_", "a">>, <<"/">>, <<".", ".">> }

InjInputs ==
    { [modelType |-> t, modelId |-> m, versionId |-> v, file |-> [id |-> f, name |-> n]] :
      t \in ModelTypes, m \in 1..MaxInjId, v \in 1..MaxInjId, f \in 1..MaxInjId,
      n \in InjNames }

InjInit ==
    /\ platform \in Platforms
    /\ sanitizer \in Sanitizers
    /\ \E i \in InjInputs :
          /\ basePath = FileLayoutBuilder(platform, <<"/", "b", "/">>)
          /\ input = [baseArg |-> <<"/", "b", "/">>] @@ i
    /\ pc = "ready"
    /\ ret = NoCall
    /\ prev = [kind |-> "none", val |-> <<>>]
    /\ disk = Unused
    /\ db = Unused
    /\ acc = Unused

\* the path of the first tuple
Inj_First ==
    /\ pc = "ready"
    /\ pc' = "first"
    /\ ret' = [op |-> "getModelFilePath", kind |-> "file",
               val |-> getModelFilePath(platform, sanitizer, basePath, input.modelType,
                                        input.modelId, input.versionId, input.file)]
    /\ UNCHANGED <<platform, sanitizer, basePath, input, prev, disk, db, acc>>

\* the path of any other tuple, from the same builder
Inj_Second ==
    /\ pc = "first"
    /\ pc' = "second"
    /\ \E i \in InjInputs :
          acc' = [args |-> i,
                  val |-> getModelFilePath(platform, sanitizer, basePath, i.modelType,
                                           i.modelId, i.versionId, i.file)]
    /\ UNCHANGED <<platform, sanitizer, basePath, input, ret, prev, disk, db>>

InjNext ==
    \/ Inj_First
    \/ Inj_Second

SpecInj == InjInit /\ [][InjNext]_vars

TupleOf(a) == <<a.modelType, a.modelId, a.versionId, a.file.id>>

\* C3: for one base directory, two tuples (modelType, modelId, versionId, fileId)
\* that differ in a component never give the same file path, whatever the two
\* display names are.
C3_Injective ==
    (pc = "second" /\ TupleOf(acc.args) # TupleOf(input)) => acc.val # ret.val

\* two files of one version that share a display name and differ in their id
C3_Witness ==
    /\ pc = "second"
    /\ acc.args.file.id # input.file.id
    /\ acc.args.file.name = input.file.name
    /\ acc.args.versionId = input.versionId
    /\ acc.args.modelId = input.modelId
    /\ acc.args.modelType = input.modelType

\* ------------------------------------------------------------------ JavaScript numbers

\* A number value is mant * 10^exp with mant not divisible by 10 (0 is 0 * 10^0),
\* so that equal values are equal records; "nan" and "null" are the other id values.
RECURSIVE Canon(_, _)
Canon(m, e) ==
    IF m = 0 THEN [t |-> "num", mant |-> 0, exp |-> 0]
    ELSE IF m % 10 = 0 THEN Canon(m \div 10, e + 1)
    ELSE [t |-> "num", mant |-> m, exp |-> e]

NaN == [t |-> "nan", mant |-> 0, exp |-> 0]

Null == [t |-> "null", mant |-> 0, exp |-> 0]

FromInt(n) == Canon(n, 0)

IsInteger(x) == x.t = "num" /\ x.exp >= 0

AllDigits(str) == \A i \in 1..Len(str) : IsDigit(str[i])

RECURSIVE DigitsValue(_)
DigitsValue(ds) ==
    IF ds = <<>> THEN 0
    ELSE DigitsValue(SubSeq(ds, 1, Len(ds) - 1)) * 10 + DigitVal(ds[Len(ds)])

\* Number(str), the StringToNumber conversion, for texts without blanks, signs,
\* "Infinity" and radix prefixes: the empty text is 0; a decimal literal
\* (digits, optional fraction, optional exponent) is its value; the rest is NaN
Number(str) ==
    IF str = <<>> THEN FromInt(0)
    ELSE LET es == {i \in 1..Len(str) : str[i] = "e"}
             ePos == IF es = {} THEN Len(str) + 1
                     ELSE CHOOSE i \in es : \A j \in es : i <= j
             mantissa == SubSeq(str, 1, ePos - 1)
             exponent == SubSeq(str, ePos + 1, Len(str))
             dots == {i \in 1..Len(mantissa) : mantissa[i] = "."}
             dotPos == IF dots = {} THEN Len(mantissa) + 1
                       ELSE CHOOSE i \in dots : \A j \in dots : i <= j
             intPart == SubSeq(mantissa, 1, dotPos - 1)
             fracPart == SubSeq(mantissa, dotPos + 1, Len(mantissa))
             valid == /\ AllDigits(intPart)
                      /\ AllDigits(fracPart)
                      /\ Len(intPart) + Len(fracPart) > 0
                      /\ es # {} => (exponent # <<>> /\ AllDigits(exponent))
         IN  IF valid
             THEN Canon(DigitsValue(intPart \o fracPart),
                        DigitsValue(exponent) - Len(fracPart))
             ELSE NaN

\* ------------------------------------------------------------------ URL helpers (utils.ts)

UrlOrigin == <<"h", "t", "t", "p", "s", ":", "/", "/", "h">>

\* text between the separators "/" of a URL path, empty segments included
UrlSplit(path) == SplitSegments("posix", path)

\* the URL parser resolves "." and ".." segments of the path
RECURSIVE UrlResolve(_, _)
UrlResolve(segs, res) ==
    IF segs = <<>> THEN res
    ELSE LET seg == Head(segs)
             last == Len(segs) = 1
             popped == IF res = <<>> THEN res ELSE SubSeq(res, 1, Len(res) - 1)
             next ==
               IF seg = <<".", ".">> THEN (IF last THEN Append(popped, <<>>) ELSE popped)
               ELSE IF seg = <<".">> THEN (IF last THEN Append(res, <<>>) ELSE res)
               ELSE Append(res, seg)
         IN  UrlResolve(Tail(segs), next)

\* extractFilenameFromUrl: the final segment of the URL's path; an error for an
\* invalid URL and for a URL without a file name
extractFilenameFromUrl(url) ==
    IF ~StartsWith(url, UrlOrigin) THEN Err("invalid url")
    ELSE LET rest == SubSeq(url, Len(UrlOrigin) + 1, Len(url))
         IN  IF rest # <<>> /\ rest[1] # "/" THEN Err("invalid url")
             ELSE LET segs == UrlResolve(Tail(UrlSplit(rest)), <<>>)
                      filename == IF segs = <<>> THEN <<>> ELSE segs[Len(segs)]
                  IN  IF filename = <<>> THEN Err("no filename") ELSE Ok(filename)

\* removeFileExtension: strips one trailing dotted extension
removeFileExtension(filename) ==
    LET dots == {i \in 1..Len(filename) : filename[i] = "."}
    IN  IF dots = {} THEN filename
        ELSE SubSeq(filename, 1, (CHOOSE i \in dots : \A j \in dots : j <= i) - 1)

\* ------------------------------------------------------------------ media paths

\* mutant: a name made from the image id when the URL gives none
getMediaFilePath_Synthesized(plat, base, modelType, modelId, versionId, image) ==
    LET r == extractFilenameFromUrl(image.url)
        mediaPath == join(plat, <<join(plat, <<join(plat, <<base, modelType,
                                                            toString(modelId)>>),
                                               toString(versionId)>>), MediaDirName>>)
    IN  Ok(join(plat, <<mediaPath, IF r.ok THEN r.value ELSE <<"0", ".", "a">> >>))

\* FileLayoutBuilder.getMediaFilePath
getMediaFilePath(plat, base, modelType, modelId, versionId, image) ==
    LET r == extractFilenameFromUrl(image.url)
    IN  IF ~r.ok THEN Err("Failed to extract filename from URL")
        ELSE IF r.value = <<>> THEN Err("Failed to extract filename from URL")
        ELSE Ok(join(plat, <<getVersionMediaPath(plat, base, modelType, modelId, versionId),
                             r.value>>))

\* ------------------------------------------------------------------ modelVersion.ts

\* the loop of createOrConnectImagesByModelIdEndpointInfo over mediaArray from
\* index i on: the images kept (with their id) and the indexes reported
RECURSIVE CollectImages(_, _, _, _)
CollectImages(mediaArray, i, mediaArrayWithId, validationErrors) ==
    IF i > Len(mediaArray)
    THEN [mediaArrayWithId |-> mediaArrayWithId, validationErrors |-> validationErrors]
    ELSE LET image == mediaArray[i]
             filenameResult == extractFilenameFromUrl(image.url)
             id == Number(removeFileExtension(filenameResult.value))
         IN  IF image.id # Null
             THEN CollectImages(mediaArray, i + 1, Append(mediaArrayWithId, image),
                                validationErrors)
             ELSE IF ~filenameResult.ok
             THEN CollectImages(mediaArray, i + 1, mediaArrayWithId,
                                Append(validationErrors, i))
             ELSE IF id = NaN
             THEN CollectImages(mediaArray, i + 1, mediaArrayWithId,
                                Append(validationErrors, i))
             ELSE CollectImages(mediaArray, i + 1,
                                Append(mediaArrayWithId, [image EXCEPT !.id = id]),
                                validationErrors)

\* all orders in which the database may list a set of rows
Orders(rows) ==
    {o \in [1..Cardinality(rows) -> rows] : \A i, j \in DOMAIN o : i # j => o[i] # o[j]}

\* createOrConnectImagesByModelIdEndpointInfo(modelVersionId, mediaArray): the
\* loop, then the update of the version's images, which throws when the version
\* has no row; the images of the version are returned in the database's order
createOrConnectImagesByModelIdEndpointInfo(mediaArray) ==
    LET locals == CollectImages(mediaArray, 1, <<>>, <<>>)
        kept == locals.mediaArrayWithId
        known == {r.id : r \in db.images}
        rows == db.images \cup
                  {kept[k] : k \in {k \in 1..Len(kept) :
                       /\ kept[k].id \notin known
                       /\ \A h \in 1..(k - 1) : kept[h].id # kept[k].id}}
    IN  /\ acc' = locals
        /\ IF kept = <<>>
           THEN /\ ret' = [op |-> "createOrConnectImages", kind |-> "images", val |-> <<>>]
                /\ db' = db
           ELSE IF ~db.versionExists
           THEN /\ ret' = [op |-> "createOrConnectImages", kind |-> "DatabaseError",
                           val |-> <<>>]
                /\ db' = db
           ELSE /\ db' = [db EXCEPT !.images = rows, !.writes = 1]
                /\ \E o \in Orders(rows) :
                      ret' = [op |-> "createOrConnectImages", kind |-> "images", val |-> o]

\* ------------------------------------------------------------------ one media item

MaxUrlPathLen == 4  \* longest generated URL path

UrlChars == {"/", "1", ".", "e", "a"}

\* URLs of the image host with every short path, and the same texts without origin
Urls ==
    {UrlOrigin \o path : path \in StringsUpTo(UrlChars, MaxUrlPathLen)}
      \cup StringsUpTo(UrlChars, MaxUrlPathLen)

EmptyDb == [versionExists |-> TRUE, images |-> {}, writes |-> 0]

UrlInit ==
    /\ platform \in Platforms
    /\ \E u \in Urls :
          input = [baseArg |-> <<"/", "b">>, modelType |-> LORA, modelId |-> 1,
                   versionId |-> 2, image |-> [id |-> Null, url |-> u]]
    /\ basePath = FileLayoutBuilder(platform, <<"/", "b">>)
    /\ sanitizer = Unused
    /\ pc = "ready"
    /\ ret = NoCall
    /\ prev = [kind |-> "none", val |-> <<>>]
    /\ disk = Unused
    /\ db = EmptyDb
    /\ acc = Unused

Url_getMediaFilePath ==
    /\ pc = "ready"
    /\ pc' = "done"
    /\ LET r == getMediaFilePath(platform, basePath, input.modelType, input.modelId,
                                 input.versionId, input.image)
       IN  ret' = [op |-> "getMediaFilePath",
                   kind |-> IF r.ok THEN "ok" ELSE "err",
                   val |-> IF r.ok THEN r.value ELSE <<>>]
    /\ UNCHANGED <<platform, sanitizer, basePath, input, prev, disk, db, acc>>

\* the batch holding the one image
Url_createOrConnectImages ==
    /\ pc = "ready"
    /\ pc' = "done"
    /\ createOrConnectImagesByModelIdEndpointInfo(<<input.image>>)
    /\ UNCHANGED <<platform, sanitizer, basePath, input, prev, disk>>

UrlNext ==
    \/ Url_getMediaFilePath
    \/ Url_createOrConnectImages

SpecUrl == UrlInit /\ [][UrlNext]_vars

UrlMediaPath ==
    getVersionMediaPath(platform, basePath, input.modelType, input.modelId,
                        input.versionId)

AfterLastSlash(str) ==
    LET slashes == {i \in 1..Len(str) : str[i] = "/"}
    IN  IF slashes = {} THEN str
        ELSE SubSeq(str, (CHOOSE i \in slashes : \A j \in slashes : j <= i) + 1, Len(str))

\* {digits}.{ext} or bare {digits}: the digits, or <<>> when the text has no such form
LeadingId(segment) ==
    LET dots == {i \in 1..Len(segment) : segment[i] = "."}
        stem == IF dots = {} THEN segment
                ELSE SubSeq(segment, 1, (CHOOSE i \in dots : \A j \in dots : j <= i) - 1)
    IN  IF stem # <<>> /\ AllDigits(stem) THEN stem ELSE <<>>

IsHostedUrl(url) == StartsWith(url, UrlOrigin \o <<"/">>)

\* what identifier recovery is to give for an image without id: the image with
\* the integer its URL ends in, or nothing
ExpectedRecovery(image) ==
    LET digits == LeadingId(AfterLastSlash(image.url))
    IN  IF IsHostedUrl(image.url) /\ digits # <<>>
        THEN << [image EXCEPT !.id = FromInt(DigitsValue(digits))] >>
        ELSE <<>>

\* C7: a URL ending in {digits}.{ext} or {digits} gives digits as a base-10
\* integer; a URL whose final segment, one extension removed, is not a valid
\* integer gives no identifier.
C7_Recovery ==
    ret.op = "createOrConnectImages" =>
      acc.mediaArrayWithId = ExpectedRecovery(input.image)

\* C7, first half alone: a URL ending in {digits}.{ext} or {digits} gives digits
C7_DigitsRecovered ==
    (ret.op = "createOrConnectImages" /\ ExpectedRecovery(input.image) # <<>>) =>
      acc.mediaArrayWithId = ExpectedRecovery(input.image)

\* ------------------------------------------------------------------ a batch of media items

MaxBatch == 2       \* longest mediaArray

GoodUrl == UrlOrigin \o <<"/", "w", "/", "7", ".", "a">>

NamedUrl == UrlOrigin \o <<"/", "w", "/", "a", ".", "a">>

BareUrl == UrlOrigin \o <<"/", "w", "/">>

ExponentUrl == UrlOrigin \o <<"/", "w", "/", "1", "e", "1", ".", "a">>

BatchItems ==
    { [id |-> Null, url |-> GoodUrl],
      [id |-> Null, url |-> NamedUrl],
      [id |-> Null, url |-> BareUrl],
      [id |-> Null, url |-> ExponentUrl],
      [id |-> FromInt(7), url |-> NamedUrl],
      [id |-> FromInt(3), url |-> GoodUrl] }

RECURSIVE SeqsUpTo(_, _)
SeqsUpTo(items, n) ==
    IF n = 0 THEN {<<>>}
    ELSE LET shorter == SeqsUpTo(items, n - 1)
         IN  shorter \cup {Append(q, x) : q \in shorter, x \in items}

BatchInit ==
    /\ platform = "posix"
    /\ \E q \in SeqsUpTo(BatchItems, MaxBatch) : input = [mediaArray |-> q]
    /\ \E e \in BOOLEAN, rows \in {{}, {[id |-> FromInt(7), url |-> GoodUrl]}} :
          db = [versionExists |-> e, images |-> rows, writes |-> 0]
    /\ basePath = Unused
    /\ sanitizer = Unused
    /\ pc = "ready"
    /\ ret = NoCall
    /\ prev = [kind |-> "none", val |-> <<>>]
    /\ disk = Unused
    /\ acc = Unused

Batch_createOrConnectImages ==
    /\ pc = "ready"
    /\ pc' = "done"
    /\ createOrConnectImagesByModelIdEndpointInfo(input.mediaArray)
    /\ UNCHANGED <<platform, sanitizer, basePath, input, prev, disk>>

BatchNext == Batch_createOrConnectImages

SpecBatch == BatchInit /\ [][BatchNext]_vars

RECURSIVE FlatMap(_, _)
FlatMap(Op(_), q) ==
    IF q = <<>> THEN <<>> ELSE Op(Head(q)) \o FlatMap(Op, Tail(q))

\* what the batch is to keep of one item
ExpectedKept(image) ==
    IF image.id # Null THEN <<image>> ELSE ExpectedRecovery(image)

\* C8: items with an id pass through unchanged, items whose URL yields an integer
\* get it, items whose recovery fails are left out and reported one by one, the
\* kept items are in input order with non-null ids, no item makes the call
\* throw, and a batch that keeps nothing returns the empty list without a write.
C8_Batch ==
    pc = "done" =>
      LET q == input.mediaArray
      IN  /\ acc.mediaArrayWithId = FlatMap(ExpectedKept, q)
          /\ acc.validationErrors
               = SelectSeq([i \in 1..Len(q) |-> i], LAMBDA i : ExpectedKept(q[i]) = <<>>)
          /\ \A k \in 1..Len(acc.mediaArrayWithId) :
               acc.mediaArrayWithId[k].id \notin {Null, NaN}
          /\ ret.kind = "DatabaseError" => (~db.versionExists /\ acc.mediaArrayWithId # <<>>)
          /\ acc.mediaArrayWithId = <<>> =>
               (ret.kind = "images" /\ ret.val = <<>> /\ db.writes = 0)

\* C8 on the batches that hold no URL of the exponent form
C8_BatchPlain ==
    (\A i \in 1..Len(input.mediaArray) : input.mediaArray[i].url # ExponentUrl) => C8_Batch

\* ------------------------------------------------------------------ MediaScanner

Letters ==
    {"a", "b", "c", "d", "e", "f", "g", "h", "i", "j", "k", "l", "m", "n", "o", "p", "q",
     "r", "s", "t", "u", "v", "w", "x", "y", "z",
     "A", "B", "C", "D", "E", "F", "G", "H", "I", "J", "K", "L", "M", "N", "O", "P", "Q",
     "R", "S", "T", "U", "V", "W", "X", "Y", "Z"}

\* the regular expression class \w
IsWordChar(c) == IsDigit(c) \/ c = "_" \/ c \in Letters

\* the last index of the run of digits that starts at i
RunEnd(str, i) ==
    CHOOSE e \in i..Len(str) :
        /\ \A k \in i..e : IsDigit(str[k])
        /\ e = Len(str) \/ ~IsDigit(str[e + 1])

\* filename.match(/\b(\d+)\b/): the start of the leftmost run of digits with a word
\* boundary on both sides, 0 when there is none
RegexMatchStart(filename) ==
    LET starts == {i \in 1..Len(filename) :
                     /\ IsDigit(filename[i])
                     /\ i = 1 \/ ~IsWordChar(filename[i - 1])
                     /\ RunEnd(filename, i) = Len(filename)
                          \/ ~IsWordChar(filename[RunEnd(filename, i) + 1])}
    IN  IF starts = {} THEN 0 ELSE CHOOSE i \in starts : \A j \in starts : i <= j

\* MediaScanner.extractImageIdFromFilename
extractImageIdFromFilename(filename) ==
    LET start == RegexMatchStart(filename)
    IN  IF start = 0 THEN Err("No numeric ID found in filename")
        ELSE Ok(DigitsValue(SubSeq(filename, start, RunEnd(filename, start))))

\* [...files].sort((a, b) => a.imageId - b.imageId): a stable sort
RECURSIVE sortByMediaId(_)
sortByMediaId(files) ==
    IF files = <<>> THEN <<>>
    ELSE LET sorted == sortByMediaId(SubSeq(files, 1, Len(files) - 1))
             x == files[Len(files)]
             before == SelectSeq(sorted, LAMBDA y : y.imageId <= x.imageId)
             after == SelectSeq(sorted, LAMBDA y : y.imageId > x.imageId)
         IN  before \o <<x>> \o after

\* the loop of scanMediaDirectory over the directory entries read
RECURSIVE CollectMediaFiles(_, _, _)
CollectMediaFiles(plat, mediaPath, files) ==
    IF files = <<>> THEN <<>>
    ELSE LET file == Head(files)
             imageIdResult == extractImageIdFromFilename(file.name)
             rest == CollectMediaFiles(plat, mediaPath, Tail(files))
         IN  IF file.isFile /\ imageIdResult.ok
             THEN << [imageId |-> imageIdResult.value,
                      filePath |-> join(plat, <<mediaPath, file.name>>),
                      fileName |-> file.name,
                      size |-> 0] >> \o rest
             ELSE rest

\* mutant: every path is reported to exist
pathExists_Always(dir) == TRUE

\* pathExists(mediaPath)
pathExists(dir) == dir.exists

MaxScanNameLen == 3 \* longest generated name of a file in the media directory

ScanChars == {"1", "2", "a", "-", "_"}

ScanNames == StringsUpTo(ScanChars, MaxScanNameLen) \ {<<>>}

ExampleEntries ==
    { [name |-> <<"1", "1", "1", ".", "j", "p", "g">>, isFile |-> TRUE],
      [name |-> <<"p", "r", "e", "v", "i", "e", "w", "-", "2", "2", "2", ".", "p", "n", "g">>,
       isFile |-> TRUE],
      [name |-> <<"3", "3", "3">>, isFile |-> TRUE],
      [name |-> <<"n", "o", "t", "e", "s">>, isFile |-> TRUE],
      [name |-> <<"4", "4", "4">>, isFile |-> FALSE],
      [name |-> <<"1", "1", "1", ".", "p", "n", "g">>, isFile |-> TRUE] }

MaxDirEntries == 3 \* most example entries in one media directory

\* the media directory: missing, holding one file of any short name, or holding
\* some of the example entries
Directories ==
    {[exists |-> FALSE, entries |-> {}]}
      \cup {[exists |-> TRUE, entries |-> {[name |-> n, isFile |-> TRUE]}] : n \in ScanNames}
      \cup {[exists |-> TRUE, entries |-> es] :
              es \in {x \in SUBSET ExampleEntries : Cardinality(x) <= MaxDirEntries}}

ScanInit ==
    /\ platform \in Platforms
    /\ basePath = FileLayoutBuilder(platform, <<"/", "b">>)
    /\ input = [mediaPath |-> getVersionMediaPath(platform, basePath, LORA, 1, 2)]
    /\ disk \in Directories
    /\ pc = "ready"
    /\ ret = NoCall
    /\ prev = [kind |-> "none", val |-> <<>>]
    /\ sanitizer = Unused
    /\ db = Unused
    /\ acc = Unused

\* scanMediaDirectory up to its first await: the existence check
Scan_pathExists ==
    /\ pc = "ready"
    /\ LET exists == pathExists(disk)
       IN  /\ acc' = [existed |-> disk.exists, files |-> <<>>]
           /\ IF ~exists
              THEN /\ pc' = "done"
                   /\ ret' = [op |-> "scanMediaDirectory", kind |-> "ok", val |-> <<>>]
              ELSE /\ pc' = "readdir"
                   /\ ret' = ret
    /\ UNCHANGED <<platform, sanitizer, basePath, input, prev, disk, db>>

\* the directory listing, in the order the system gives it, then the loop and the
\* sort; a listing that fails is caught and returned as an error
Scan_readdir ==
    /\ pc = "readdir"
    /\ pc' = "done"
    /\ IF ~disk.exists
       THEN /\ ret' = [op |-> "scanMediaDirectory", kind |-> "err", val |-> <<>>]
            /\ acc' = acc
       ELSE \E files \in Orders(disk.entries) :
              /\ acc' = [acc EXCEPT !.files = files]
              /\ ret' = [op |-> "scanMediaDirectory", kind |-> "ok",
                         val |-> sortByMediaId(
                                   CollectMediaFiles(platform, input.mediaPath, files))]
    /\ UNCHANGED <<platform, sanitizer, basePath, input, prev, disk, db>>

\* another process removes the media directory while the scan has not finished
Env_RemoveDirectory ==
    /\ pc \in {"ready", "readdir"}
    /\ disk.exists
    /\ disk' = [exists |-> FALSE, entries |-> {}]
    /\ UNCHANGED <<platform, sanitizer, basePath, input, pc, ret, prev, db, acc>>

ScanNext ==
    \/ Scan_pathExists
    \/ Scan_readdir
    \/ Env_RemoveDirectory

SpecScan == ScanInit /\ [][ScanNext]_vars

HasDigit(str) == \E i \in 1..Len(str) : IsDigit(str[i])

\* the value of the first maximal run of digits of a name that has a digit
FirstDigitRun(str) ==
    LET first == CHOOSE i \in 1..Len(str) :
                     IsDigit(str[i]) /\ \A j \in 1..(i - 1) : ~IsDigit(str[j])
    IN  DigitsValue(SubSeq(str, first, RunEnd(str, first)))

\* C9: for every regular file listed, the identifier the scan recovers is the
\* value of the first maximal run of digits of its name, wherever the digits are.
C9_FirstDigitRun ==
    (pc = "done" /\ ret.kind = "ok") =>
      \A k \in 1..Len(acc.files) :
        (acc.files[k].isFile /\ HasDigit(acc.files[k].name)) =>
          \E r \in 1..Len(ret.val) :
            /\ ret.val[r].fileName = acc.files[k].name
            /\ ret.val[r].imageId = FirstDigitRun(acc.files[k].name)

\* C9 on the names whose first run of digits has no letter, digit or underscore
\* next to it
C9_BoundedRun ==
    (pc = "done" /\ ret.kind = "ok") =>
      \A k \in 1..Len(acc.files) :
        LET name == acc.files[k].name
        IN  (/\ acc.files[k].isFile
             /\ HasDigit(name)
             /\ RegexMatchStart(name) # 0
             /\ \A j \in 1..(RegexMatchStart(name) - 1) : ~IsDigit(name[j])) =>
              \E r \in 1..Len(ret.val) :
                /\ ret.val[r].fileName = name
                /\ ret.val[r].imageId = FirstDigitRun(name)

\* C10: a scan of a media directory that does not exist returns ok([]).
C10_MissingDirectory ==
    (pc = "done" /\ ~acc.existed) => (ret.kind = "ok" /\ ret.val = <<>>)

\* the scan of a missing directory has returned
C10_Witness ==
    /\ pc = "done"
    /\ ~acc.existed
    /\ ret.op = "scanMediaDirectory"
    /\ ret.kind = "ok"

\* ------------------------------------------------------------------ scan result

Range(f) == {f[i] : i \in DOMAIN f}

ImageIds(files) == [i \in 1..Len(files) |-> files[i].imageId]

ExampleDirectory ==
    {e \in ExampleEntries : e.name \in {<<"1", "1", "1", ".", "j", "p", "g">>,
                                        <<"p", "r", "e", "v", "i", "e", "w", "-", "2", "2", "2",
                                          ".", "p", "n", "g">>,
                                        <<"3", "3", "3">>}}

\* the scan has returned a list for a directory it listed
ScanListed == pc = "done" /\ ret.kind = "ok" /\ acc.existed

\* the list is the one every other listing order of the same entries gives
SameForEveryOrder ==
    \A files \in Orders(Range(acc.files)) :
        sortByMediaId(CollectMediaFiles(platform, input.mediaPath, files)) = ret.val

Ascending ==
    \A i \in 1..(Len(ret.val) - 1) : ret.val[i].imageId <= ret.val[i + 1].imageId

\* C11: the scan result is sorted ascending by recovered identifier and does not
\* depend on the order of the directory listing, also when two files yield the
\* same identifier; the directory 111.jpg, preview-222.png, 333 yields
\* [111, 222, 333].
C11_SortedOrderIndependent ==
    ScanListed =>
      /\ Ascending
      /\ SameForEveryOrder
      /\ Range(acc.files) = ExampleDirectory => ImageIds(ret.val) = <<111, 222, 333>>

\* C11 on the directories in which no two files yield the same identifier
C11_DistinctIds ==
    (ScanListed /\ \A i, j \in 1..Len(ret.val) : i # j => ret.val[i].imageId # ret.val[j].imageId)
      => /\ Ascending
         /\ SameForEveryOrder
         /\ Range(acc.files) = ExampleDirectory => ImageIds(ret.val) = <<111, 222, 333>>

EntriesFor(name) == {r \in 1..Len(ret.val) : ret.val[r].fileName = name}

\* C12: a listed directory never fails the scan because of a name without digits
\* or an entry that is not a regular file, and the result has exactly one entry
\* for each regular file whose name holds a digit and none for any other entry.
C12_OneEntryPerDigitFile ==
    (pc = "done" /\ disk.exists) =>
      /\ ret.kind = "ok"
      /\ \A k \in 1..Len(acc.files) :
           Cardinality(EntriesFor(acc.files[k].name))
             = IF acc.files[k].isFile /\ HasDigit(acc.files[k].name) THEN 1 ELSE 0
      /\ \A r \in 1..Len(ret.val) : \E k \in 1..Len(acc.files) :
           ret.val[r].fileName = acc.files[k].name

\* C12 on the directories whose digit runs the scanner's pattern finds
C12_MatchedNames ==
    (/\ pc = "done"
     /\ disk.exists
     /\ \A k \in 1..Len(acc.files) :
          HasDigit(acc.files[k].name) => RegexMatchStart(acc.files[k].name) # 0) =>
      /\ ret.kind = "ok"
      /\ \A k \in 1..Len(acc.files) :
           Cardinality(EntriesFor(acc.files[k].name))
             = IF acc.files[k].isFile /\ HasDigit(acc.files[k].name) THEN 1 ELSE 0
      /\ \A r \in 1..Len(ret.val) : \E k \in 1..Len(acc.files) :
           ret.val[r].fileName = acc.files[k].name

\* ------------------------------------------------------------------ media round trip

TripIds == {Null, FromInt(1), FromInt(11)}

TripUrls == {UrlOrigin \o path : path \in StringsUpTo(UrlChars, MaxUrlPathLen)}

TripInit ==
    /\ platform \in Platforms
    /\ basePath = FileLayoutBuilder(platform, <<"/", "b">>)
    /\ \E id \in TripIds, u \in TripUrls :
          input = [mediaPath |-> getVersionMediaPath(platform, basePath, LORA, 1, 2),
                   modelType |-> LORA, modelId |-> 1, versionId |-> 2,
                   image |-> [id |-> id, url |-> u]]
    /\ disk \in {[exists |-> FALSE, entries |-> {}], [exists |-> TRUE, entries |-> {}]}
    /\ pc = "start"
    /\ ret = NoCall
    /\ prev = [kind |-> "none", val |-> <<>>]
    /\ sanitizer = Unused
    /\ db = EmptyDb
    /\ acc = Unused

\* the item's identifier: given in the payload or recovered from its URL
Trip_createOrConnectImages ==
    /\ pc = "start"
    /\ pc' = "recovered"
    /\ createOrConnectImagesByModelIdEndpointInfo(<<input.image>>)
    /\ UNCHANGED <<platform, sanitizer, basePath, input, prev, disk>>

\* getMediaFilePath for the item that has an identifier, and the download that
\* writes the file at the path returned
Trip_getMediaFilePath ==
    /\ pc = "recovered"
    /\ ret.kind = "images"
    /\ ret.val # <<>>
    /\ LET r == getMediaFilePath(platform, basePath, input.modelType, input.modelId,
                                 input.versionId, ret.val[1])
           dir == Segments(platform, input.mediaPath)
           file == IF r.ok THEN Segments(platform, r.value) ELSE <<>>
           inMediaDir == Len(file) = Len(dir) + 1 /\ SubSeq(file, 1, Len(dir)) = dir
       IN  /\ ret' = [op |-> "getMediaFilePath",
                      kind |-> IF r.ok THEN "ok" ELSE "err",
                      val |-> IF r.ok THEN r.value ELSE <<>>]
           /\ pc' = IF r.ok THEN "ready" ELSE "done"
           /\ disk' = IF ~r.ok THEN disk
                      ELSE [exists |-> TRUE,
                            entries |-> IF inMediaDir
                                        THEN disk.entries
                                               \cup {[name |-> file[Len(file)], isFile |-> TRUE]}
                                        ELSE disk.entries]
    /\ prev' = [kind |-> ret.kind, val |-> ret.val]
    /\ UNCHANGED <<platform, sanitizer, basePath, input, db, acc>>

TripNext ==
    \/ Trip_createOrConnectImages
    \/ Trip_getMediaFilePath
    \/ Scan_pathExists
    \/ Scan_readdir

SpecTrip == TripInit /\ [][TripNext]_vars

\* the media file was written and the scan of its directory has returned
TripScanned == pc = "done" /\ ret.op = "scanMediaDirectory" /\ prev.kind = "images"

\* C13: after a file is written at the path getMediaFilePath gives for a media
\* item with identifier F, the scan of the version's media directory returns an
\* entry whose imageId is F.
C13_MediaRoundTrip ==
    TripScanned =>
      /\ ret.kind = "ok"
      /\ \E r \in 1..Len(ret.val) : FromInt(ret.val[r].imageId) = prev.val[1].id

\* the file name the URL carries is F in digits, with or without one extension
TripIdEmbedded ==
    LET f == extractFilenameFromUrl(input.image.url)
        stem == IF f.ok THEN removeFileExtension(f.value) ELSE <<>>
    IN  /\ stem # <<>>
        /\ AllDigits(stem)
        /\ FromInt(DigitsValue(stem)) = prev.val[1].id

\* C13 on the items whose URL file name is their identifier
C13_EmbeddedId ==
    (TripScanned /\ TripIdEmbedded) =>
      /\ ret.kind = "ok"
      /\ \E r \in 1..Len(ret.val) : FromInt(ret.val[r].imageId) = prev.val[1].id

\* ------------------------------------------------------------------ files on disk

\* VersionLayout.findFile
findFile(vl, fileId) ==
    LET i == FindIndexFrom(vl.version.files, fileId, 1)
    IN  IF i = 0
        THEN Err([what |-> "file", owner |-> vl.version.id, searched |-> fileId])
        ELSE Ok(vl.version.files[i])

\* VersionLayout.getFilePath
getFilePath(plat, impl, vl, fileId) ==
    LET fileResult == findFile(vl, fileId)
    IN  IF ~fileResult.ok THEN Err(fileResult.error)
        ELSE Ok(getModelFilePath(plat, impl, vl.builder, vl.model.type, vl.model.id,
                                 vl.version.id, fileResult.value))

\* fs.access(path): fails with ENOENT for a missing path and with another error
\* for a path it cannot reach
access(d, path) ==
    IF path \in d.failing THEN Err("EACCES")
    ELSE IF path \in d.present THEN Ok(TRUE)
    ELSE Err("ENOENT")

\* pathExists(filePath): false whenever access fails
pathExistsFile(d, path) == access(d, path).ok

\* VersionLayout.checkFilesOnDisk: the loop from file i on
RECURSIVE checkFilesOnDisk(_, _, _, _, _, _)
checkFilesOnDisk(plat, impl, vl, d, i, existingFiles) ==
    IF i > Len(vl.version.files) THEN Ok(existingFiles)
    ELSE LET file == vl.version.files[i]
             filePathResult == getFilePath(plat, impl, vl, file.id)
         IN  IF ~filePathResult.ok THEN Err(filePathResult.error)
             ELSE checkFilesOnDisk(plat, impl, vl, d, i + 1,
                                   IF pathExistsFile(d, filePathResult.value)
                                   THEN Append(existingFiles, file.id)
                                   ELSE existingFiles)

\* ModelLayout.checkVersionFilesOnDisk
checkVersionFilesOnDisk(plat, impl, ml, d, versionId) ==
    LET versionLayoutResult == getVersionLayout(plat, ml, versionId)
    IN  IF ~versionLayoutResult.ok THEN Err(versionLayoutResult.error)
        ELSE checkFilesOnDisk(plat, impl, versionLayoutResult.value, d, 1, <<>>)

MaxFiles == 2 \* most files of a version

CheckFileIds == {1, 2, NaNId}

CheckFiles == {[id |-> id, name |-> <<c>>] : id \in CheckFileIds, c \in {"a", "b"}}

CheckVersions == {[id |-> 2, files |-> fs, images |-> <<>>] : fs \in SeqsUpTo(CheckFiles, MaxFiles)}

OwnPath(plat, impl, base, model, version, file) ==
    getModelFilePath(plat, impl, base, model.type, model.id, version.id, file)

CheckInit ==
    /\ platform \in Platforms
    /\ sanitizer \in Sanitizers
    /\ basePath = FileLayoutBuilder(platform, <<"/", "b">>)
    /\ \E version \in CheckVersions :
          /\ input = [model |-> [type |-> LORA, id |-> 1, modelVersions |-> <<version>>],
                      version |-> version]
          /\ LET paths == {OwnPath(platform, sanitizer, basePath, input.model, version,
                                   version.files[i]) :
                             i \in {i \in 1..Len(version.files) : version.files[i].id # NaNId}}
             IN  \E present \in SUBSET paths : \E failing \in SUBSET (paths \ present) :
                    disk = [present |-> present, failing |-> failing]
    /\ pc = "ready"
    /\ ret = NoCall
    /\ prev = [kind |-> "none", val |-> <<>>]
    /\ db = Unused
    /\ acc = Unused

CheckReturn(op, r) ==
    /\ pc' = "done"
    /\ ret' = [op |-> op, kind |-> IF r.ok THEN "ok" ELSE "err",
               val |-> IF r.ok THEN r.value ELSE r.error]
    /\ UNCHANGED <<platform, sanitizer, basePath, input, prev, disk, db, acc>>

\* new VersionLayout(model, version, basePath).checkFilesOnDisk()
Check_checkFilesOnDisk ==
    /\ pc = "ready"
    /\ CheckReturn("checkFilesOnDisk",
                   checkFilesOnDisk(platform, sanitizer,
                                    VersionLayout(platform, input.model, input.version,
                                                  <<"/", "b">>),
                                    disk, 1, <<>>))

\* new ModelLayout(model, basePath).checkVersionFilesOnDisk(versionId)
Check_checkVersionFilesOnDisk ==
    /\ pc = "ready"
    /\ \E versionId \in {2, 3} :
          CheckReturn("checkVersionFilesOnDisk",
                      checkVersionFilesOnDisk(platform, sanitizer,
                                              ModelLayout(platform, input.model, <<"/", "b">>),
                                              disk, versionId))

CheckNext ==
    \/ Check_checkFilesOnDisk
    \/ Check_checkVersionFilesOnDisk

SpecCheck == CheckInit /\ [][CheckNext]_vars

\* the files of the version have been checked
FilesChecked ==
    /\ pc = "done"
    /\ ret.op \in {"checkFilesOnDisk", "checkVersionFilesOnDisk"}
    /\ ~(ret.kind = "err" /\ ret.val.what = "version")

\* the ids, in the order of version.files, of the entries whose own path is on disk
RECURSIVE OwnPathPresent(_, _)
OwnPathPresent(files, i) ==
    IF i > Len(files) THEN <<>>
    ELSE IF /\ files[i].id # NaNId
            /\ OwnPath(platform, sanitizer, basePath, input.model, input.version, files[i])
                 \in disk.present
         THEN <<files[i].id>> \o OwnPathPresent(files, i + 1)
         ELSE OwnPathPresent(files, i + 1)

\* C14: the check returns, in the order of version.files, exactly the ids of the
\* entries whose own expected path exists on disk, also when two entries share
\* an id.
C14_OwnPathChecked ==
    (FilesChecked /\ ret.kind = "ok") => ret.val = OwnPathPresent(input.version.files, 1)

\* C14 on the versions whose files have distinct ids
C14_DistinctIds ==
    (/\ FilesChecked
     /\ ret.kind = "ok"
     /\ \A i, j \in 1..Len(input.version.files) :
          i # j => input.version.files[i].id # input.version.files[j].id)
      => ret.val = OwnPathPresent(input.version.files, 1)

C15_ExistenceFailures ==
    (FilesChecked /\ \A i \in 1..Len(input.version.files) : input.version.files[i].id # NaNId)
      => /\ ret.kind = "ok"
         /\ \A i \in 1..Len(input.version.files) :
              LET file == input.version.files[i]
              IN  (/\ \A j \in 1..Len(input.version.files) :
                        input.version.files[j].id = file.id => j = i
                   /\ OwnPath(platform, sanitizer, basePath, input.model, input.version, file)
                        \notin disk.present)
                    => \A r \in 1..Len(ret.val) : ret.val[r] # file.id

\* ------------------------------------------------------------------ lookups by id

\* VersionLayout.findMedia
findMedia(vl, mediaId) ==
    LET i == FindIndexFrom(vl.version.images, mediaId, 1)
    IN  IF i = 0
        THEN Err([what |-> "media", owner |-> vl.version.id, searched |-> mediaId])
        ELSE Ok(vl.version.images[i])

\* VersionLayout.getMediaPathById
getMediaPathById(plat, vl, mediaId) ==
    LET mediaResult == findMedia(vl, mediaId)
    IN  IF ~mediaResult.ok THEN Err(mediaResult.error)
        ELSE getMediaFilePath(plat, vl.builder, vl.model.type, vl.model.id, vl.version.id,
                              mediaResult.value)

NotFound(modelId, versionId) ==
    [type |-> "NOT_FOUND", what |-> "version", owner |-> modelId, searched |-> versionId,
     status |-> 404]

\* UnifiedModelVersionsEndpointImpl.getFromModel, from the response of
\* client.get(`models/${modelId}`) on
getFromModel(modelResult, modelId, hasVersionId, versionId) ==
    IF ~modelResult.ok THEN Err(modelResult.error)
    ELSE LET model == modelResult.value
             i == FindIndexFrom(model.modelVersions, versionId, 1)
         IN  IF hasVersionId
             THEN IF i = 0 THEN Err(NotFound(modelId, versionId))
                  ELSE Ok(model.modelVersions[i])
             ELSE IF Len(model.modelVersions) = 0
             THEN Err([type |-> "NOT_FOUND", what |-> "versions", owner |-> modelId,
                       searched |-> 0, status |-> 404])
             ELSE Ok(model.modelVersions[1])

\* UnifiedModelsEndpointImpl.getUnifiedWithVersion, from the response of
\* getUnifiedById(modelId) on
getUnifiedWithVersion(modelResult, modelId, versionId) ==
    IF ~modelResult.ok THEN Err(modelResult.error)
    ELSE LET model == modelResult.value
             i == FindIndexFrom(model.modelVersions, versionId, 1)
         IN  IF i = 0 THEN Err(NotFound(modelId, versionId))
             ELSE Ok([model EXCEPT !.modelVersions = <<model.modelVersions[i]>>])

MaxVersions == 2 \* most versions of a model

MaxImages == 2   \* most images of a version

VersionVariants == {"models", "modelById", "modelVersion"}

FindFile == [id |-> 1, name |-> <<"a">>]

FindVersions ==
    {[id |-> id, variant |-> v,
      files |-> IF v = "modelById" THEN <<FindFile>> ELSE <<>>, images |-> <<>>] :
        id \in {1, 2}, v \in VersionVariants}

FindImages == {[id |-> id, url |-> u] : id \in {1, 2}, u \in {GoodUrl, BareUrl}}

\* the model of the documented scenario: model 456 holding only version 789
ExampleModel ==
    [type |-> Checkpoint, id |-> 456,
     modelVersions |-> <<[id |-> 789, variant |-> "models", files |-> <<>>, images |-> <<>>]>>]

FindModels ==
    {[type |-> LORA, id |-> 7, modelVersions |-> vs] : vs \in SeqsUpTo(FindVersions, MaxVersions)}
      \cup {ExampleModel}

\* the version a VersionLayout is built for: files only or images only
FindLayoutVersions ==
    {[id |-> 2, files |-> fs, images |-> <<>>] : fs \in SeqsUpTo(CheckFiles, MaxFiles)}
      \cup {[id |-> 2, files |-> <<>>, images |-> is] : is \in SeqsUpTo(FindImages, MaxImages)}

FindTargets == {1, 2, 999}

FindInit ==
    /\ platform \in Platforms
    /\ sanitizer = "replace"
    /\ basePath = FileLayoutBuilder(platform, <<"/", "b">>)
    /\ \/ \E model \in FindModels :
             input = [model |-> model, version |-> [id |-> 2, files |-> <<>>, images |-> <<>>]]
       \/ \E version \in FindLayoutVersions :
             input = [model |-> [type |-> LORA, id |-> 7, modelVersions |-> <<>>],
                      version |-> version]
    /\ disk = [present |-> {}, failing |-> {}]
    /\ pc = "ready"
    /\ ret = NoCall
    /\ prev = [kind |-> "none", val |-> <<>>]
    /\ db = Unused
    /\ acc = Unused

FindReturn(op, target, r) ==
    /\ pc = "ready"
    /\ pc' = "done"
    /\ acc' = [target |-> target]
    /\ ret' = [op |-> op, kind |-> IF r.ok THEN "ok" ELSE "err",
               val |-> IF r.ok THEN r.value ELSE r.error]
    /\ UNCHANGED <<platform, sanitizer, basePath, input, prev, disk, db>>

TheModelLayout == ModelLayout(platform, input.model, <<"/", "b">>)

TheVersionLayout == VersionLayout(platform, input.model, input.version, <<"/", "b">>)

Find_findVersion ==
    \E t \in FindTargets : FindReturn("findVersion", t, findVersion(input.model, t))

Find_getVersionLayout ==
    \E t \in FindTargets :
       FindReturn("getVersionLayout", t, getVersionLayout(platform, TheModelLayout, t))

Find_checkVersionFilesOnDisk ==
    \E t \in FindTargets :
       FindReturn("checkVersionFilesOnDisk", t,
                  checkVersionFilesOnDisk(platform, sanitizer, TheModelLayout, disk, t))

Find_findFile ==
    \E t \in FindTargets : FindReturn("findFile", t, findFile(TheVersionLayout, t))

Find_getFilePath ==
    \E t \in FindTargets :
       FindReturn("getFilePath", t, getFilePath(platform, sanitizer, TheVersionLayout, t))

Find_findMedia ==
    \E t \in FindTargets : FindReturn("findMedia", t, findMedia(TheVersionLayout, t))

Find_getMediaPathById ==
    \E t \in FindTargets :
       FindReturn("getMediaPathById", t, getMediaPathById(platform, TheVersionLayout, t))

\* the server answers the request for the model with the model or with an error
ModelResponses == {Ok(input.model), Err([type |-> "NETWORK_ERROR"])}

Find_getFromModel ==
    \E t \in FindTargets, hasVersionId \in BOOLEAN, modelResult \in ModelResponses :
       FindReturn(IF ~modelResult.ok THEN "getFromModel failed"
                  ELSE IF hasVersionId THEN "getFromModel" ELSE "getFromModel first",
                  t, getFromModel(modelResult, input.model.id, hasVersionId, t))

Find_getUnifiedWithVersion ==
    \E t \in FindTargets, modelResult \in ModelResponses :
       FindReturn(IF modelResult.ok THEN "getUnifiedWithVersion"
                  ELSE "getUnifiedWithVersion failed",
                  t, getUnifiedWithVersion(modelResult, input.model.id, t))

FindNext ==
    \/ Find_findVersion
    \/ Find_getVersionLayout
    \/ Find_checkVersionFilesOnDisk
    \/ Find_findFile
    \/ Find_getFilePath
    \/ Find_findMedia
    \/ Find_getMediaPathById
    \/ Find_getFromModel
    \/ Find_getUnifiedWithVersion

SpecFind == FindInit /\ [][FindNext]_vars

NoElement(items, t) == \A i \in 1..Len(items) : items[i].id # t

NotFoundError(what, owner) == [what |-> what, owner |-> owner, searched |-> acc.target]

\* C16: when no element has the searched id, findVersion, findFile and findMedia
\* return an error result that names the searched id and the id of the owning
\* model or version (findVersion(999) on model 456 holding only version 789 names
\* 999 and 456), and getFilePath, getMediaPathById, getVersionLayout and
\* checkVersionFilesOnDisk return that same error.
C16_NotFoundErrors ==
    pc = "done" =>
      /\ (/\ ret.op \in {"findVersion", "getVersionLayout", "checkVersionFilesOnDisk"}
          /\ NoElement(input.model.modelVersions, acc.target))
           => ret.kind = "err" /\ ret.val = NotFoundError("version", input.model.id)
      /\ (/\ ret.op \in {"findFile", "getFilePath"}
          /\ NoElement(input.version.files, acc.target))
           => ret.kind = "err" /\ ret.val = NotFoundError("file", input.version.id)
      /\ (/\ ret.op \in {"findMedia", "getMediaPathById"}
          /\ NoElement(input.version.images, acc.target))
           => ret.kind = "err" /\ ret.val = NotFoundError("media", input.version.id)
      /\ (ret.op = "findVersion" /\ input.model = ExampleModel /\ acc.target = 999)
           => ret.kind = "err" /\ ret.val.searched = 999 /\ ret.val.owner = 456

\* findVersion(999) on the model holding only version 789 has returned its error
C16_Witness ==
    /\ pc = "done"
    /\ ret.op = "findVersion"
    /\ input.model = ExampleModel
    /\ acc.target = 999
    /\ ret.kind = "err"

\* index of the first element with the id, 0 when there is none
FirstIndex(items, t) ==
    IF NoElement(items, t) THEN 0
    ELSE CHOOSE i \in 1..Len(items) :
           items[i].id = t /\ \A j \in 1..(i - 1) : items[j].id # t

\* the lookup found the element at index i, given as found(element), or nothing
LookupIs(i, items, found(_)) ==
    IF i = 0 THEN ret.kind = "err" ELSE ret.kind = "ok" /\ ret.val = found(items[i])

\* C17: every lookup by id returns the first element in collection order whose
\* id is the target, whatever its variant, and reports not-found exactly when no
\* element has that id.
C17_FirstMatch ==
    pc = "done" =>
      LET versions == input.model.modelVersions
          t == acc.target
      IN  /\ ret.op = "findVersion" =>
                LookupIs(FirstIndex(versions, t), versions,
                         LAMBDA v : [id |-> v.id, files |-> v.files, images |-> v.images])
          /\ ret.op = "findFile" =>
                LookupIs(FirstIndex(input.version.files, t), input.version.files,
                         LAMBDA f : f)
          /\ ret.op = "findMedia" =>
                LookupIs(FirstIndex(input.version.images, t), input.version.images,
                         LAMBDA m : m)
          /\ ret.op = "getFromModel" =>
                LookupIs(FirstIndex(versions, t), versions, LAMBDA v : v)
          /\ ret.op = "getUnifiedWithVersion" =>
                LookupIs(FirstIndex(versions, t), versions,
                         LAMBDA v : [input.model EXCEPT !.modelVersions = <<v>>])
          /\ (ret.op \in {"getFromModel", "getUnifiedWithVersion"} /\ ret.kind = "err")
                => ret.val.type = "NOT_FOUND"

\* a lookup has returned the earlier of two different versions that share the id
C17_Witness ==
    /\ pc = "done"
    /\ ret.op \in {"findVersion", "getFromModel"}
    /\ ret.kind = "ok"
    /\ Len(input.model.modelVersions) = 2
    /\ input.model.modelVersions[1].id = acc.target
    /\ input.model.modelVersions[2].id = acc.target
    /\ input.model.modelVersions[1].variant # input.model.modelVersions[2].variant
    /\ input.model.modelVersions[1].files # input.model.modelVersions[2].files

\* ------------------------------------------------------------------ version variants

\* the fields every version variant has; baseModelType is optional
VersionCommonFields ==
    {"id", "name", "baseModel", "baseModelType", "publishedAt", "nsfwLevel", "description",
     "stats", "files", "images"}

ListVariantFields == {"index", "availability"}

\* a JSON object with the given keys: the id and publication time given, any
\* other value "v"
JsonObject(keys, id, publishedAt) ==
    [k \in keys |-> IF k = "id" THEN id
                    ELSE IF k = "publishedAt" THEN publishedAt
                    ELSE IF k = "index" THEN 0
                    ELSE IF k \in {"files", "images", "modelVersions"} THEN <<>>
                    ELSE "v"]

\* {...object, key: value}
Spread(object, key, value) == [k \in {key} |-> value] @@ object

\* modelVersionSchema of the models endpoint: the list-endpoint shape; keys it
\* does not declare are kept
modelVersionSchema(data) ==
    IF ((VersionCommonFields \ {"baseModelType"}) \cup ListVariantFields) \subseteq DOMAIN data
    THEN Ok(data)
    ELSE Err("type.errors")

ModelCommonFields == {"id", "name", "type", "nsfw", "tags", "creator", "modelVersions"}

\* modelSchema of the models endpoint
modelSchema(data) ==
    IF (ModelCommonFields \ {"creator"}) \subseteq DOMAIN data THEN Ok(data)
    ELSE Err("type.errors")

Undefined == "undefined"

\* getModelId, getIndex, getAvailability: the optional value {field} when the
\* variant carries the field, {} (undefined) when it does not
getModelId(version) == IF "modelId" \in DOMAIN version THEN {version["modelId"]} ELSE {}

getIndex(version) == IF "index" \in DOMAIN version THEN {version["index"]} ELSE {}

getAvailability(version) ==
    IF "availability" \in DOMAIN version THEN {version["availability"]} ELSE {}

\* scanModelsAndSyncToDb: { ...modelVersionInfo, modelId: modelIdInfo.id,
\* publishedAt: modelVersionInfo.publishedAt ?? undefined }
modelVersionWithModelId(modelVersionInfo, modelIdInfo) ==
    Spread(Spread(modelVersionInfo, "modelId", modelIdInfo["id"]),
           "publishedAt",
           IF modelVersionInfo["publishedAt"] = "null" THEN Undefined
           ELSE modelVersionInfo["publishedAt"])

PublishedAts == {"null", "2024-01-01"}

EmptyObject == [k \in {} |-> "v"]

MissingFile == [exists |-> FALSE, json |-> EmptyObject]

\* what the version's api-info file may be: missing, or a payload in the shape of
\* one of the endpoints, with or without the optional field, or a payload that
\* lacks a required field
VersionJsonFiles ==
    {MissingFile}
      \cup {[exists |-> TRUE, json |-> JsonObject(keys, id, at)] :
              id \in Ids, at \in PublishedAts,
              keys \in {VersionCommonFields \cup ListVariantFields,
                        (VersionCommonFields \ {"baseModelType"}) \cup ListVariantFields,
                        VersionCommonFields \cup {"modelId"},
                        VersionCommonFields \cup ListVariantFields \cup {"modelId"},
                        VersionCommonFields \ {"name"}}}

ModelJsonFiles ==
    {MissingFile}
      \cup {[exists |-> TRUE, json |-> JsonObject(keys, id, "null")] :
              id \in Ids, keys \in {ModelCommonFields, ModelCommonFields \ {"name"}}}

SyncInit ==
    /\ platform = "posix"
    /\ basePath = FileLayoutBuilder(platform, <<"/", "b">>)
    /\ \E versionId \in Ids, modelId \in Ids :
          input = [modelInfo |-> [modelType |-> LORA, modelId |-> modelId,
                                  versionId |-> versionId]]
    /\ \E versionJson \in VersionJsonFiles, modelJson \in ModelJsonFiles :
          disk = [versionJson |-> versionJson, modelJson |-> modelJson]
    /\ \E rows \in SUBSET Ids : db = [versions |-> rows]
    /\ pc = "findUnique"
    /\ ret = NoCall
    /\ prev = [kind |-> "none", val |-> <<>>]
    /\ sanitizer = Unused
    /\ acc = [modelVersionInfo |-> EmptyObject, modelIdInfo |-> EmptyObject]

SyncStep(next, op, kind, val) ==
    /\ pc' = next
    /\ ret' = [op |-> op, kind |-> kind, val |-> val]
    /\ UNCHANGED <<platform, sanitizer, basePath, input, prev, disk>>

\* prisma.modelVersion.findUnique: a version already in the database is left alone
Sync_findUnique ==
    /\ pc = "findUnique"
    /\ IF input.modelInfo.versionId \in db.versions
       THEN SyncStep("done", "scanModelsAndSyncToDb", "known", <<>>)
       ELSE SyncStep("versionJson", "findUnique", "null", <<>>)
    /\ UNCHANGED <<db, acc>>

\* the version's api-info file: skipped when missing, a ValidationError when it
\* does not validate
Sync_versionJson ==
    /\ pc = "versionJson"
    /\ IF ~disk.versionJson.exists
       THEN /\ SyncStep("done", "scanModelsAndSyncToDb", "skipped", <<>>)
            /\ acc' = acc
       ELSE LET modelVersionInfo == modelVersionSchema(disk.versionJson.json)
            IN  IF ~modelVersionInfo.ok
                THEN /\ SyncStep("done", "scanModelsAndSyncToDb", "ValidationError", <<>>)
                     /\ acc' = acc
                ELSE /\ SyncStep("modelJson", "modelVersionSchema", "ok", <<>>)
                     /\ acc' = [acc EXCEPT !.modelVersionInfo = modelVersionInfo.value]
    /\ UNCHANGED db

\* the model's api-info file, then the call of upsertOneModelVersion, which
\* creates the row or fails with a DatabaseError
Sync_modelJson ==
    /\ pc = "modelJson"
    /\ IF ~disk.modelJson.exists
       THEN /\ SyncStep("done", "scanModelsAndSyncToDb", "skipped", <<>>)
            /\ UNCHANGED <<db, acc>>
       ELSE LET modelIdInfo == modelSchema(disk.modelJson.json)
            IN  IF ~modelIdInfo.ok
                THEN /\ SyncStep("done", "scanModelsAndSyncToDb", "ValidationError", <<>>)
                     /\ UNCHANGED <<db, acc>>
                ELSE /\ acc' = [acc EXCEPT !.modelIdInfo = modelIdInfo.value]
                     /\ \E fails \in BOOLEAN :
                          LET version == modelVersionWithModelId(acc.modelVersionInfo,
                                                                 modelIdInfo.value)
                          IN  /\ SyncStep("done", "upsertOneModelVersion",
                                          IF fails THEN "DatabaseError" ELSE "ok", version)
                              /\ db' = IF fails THEN db
                                       ELSE [db EXCEPT !.versions = @ \cup {version["id"]}]

SyncNext ==
    \/ Sync_findUnique
    \/ Sync_versionJson
    \/ Sync_modelJson

SpecSync == SyncInit /\ [][SyncNext]_vars

Present(option) == option # {}

\* C18: the version object passed to upsertOneModelVersion has exactly one of:
\* modelId present, or index and availability both present.
C18_ExactlyOneVariant ==
    ret.op = "upsertOneModelVersion" =>
      (Present(getModelId(ret.val))
         # (Present(getIndex(ret.val)) /\ Present(getAvailability(ret.val))))

\* the version read from disk and validated, before modelId is added, has index
\* and availability
C18_ValidatedIsListVariant ==
    DOMAIN acc.modelVersionInfo # {} =>
      Present(getIndex(acc.modelVersionInfo)) /\ Present(getAvailability(acc.modelVersionInfo))

\* ------------------------------------------------------------------ core projection

\* the object restricted to the keys given
Pick(object, keys) == [k \in keys \cap DOMAIN object |-> object[k]]

\* toModelVersionCore: copies the fields common to all version variants
toModelVersionCore(version) == Pick(version, VersionCommonFields)

\* toModelCore: copies the fields common to both model variants
toModelCore(model) == Pick(model, ModelCommonFields)

\* mutant: the fetched version returned without projection
UnifiedModelVersions_getCoreById_Unprojected(result) ==
    IF result.ok THEN Ok(result.value) ELSE Err(result.error)

\* UnifiedModelVersionsEndpointImpl.getCoreById, from the result of getById on
UnifiedModelVersions_getCoreById(result) ==
    IF result.ok THEN Ok(toModelVersionCore(result.value)) ELSE Err(result.error)

\* UnifiedModelsEndpointImpl.getCoreById, from the result of getUnifiedById on
UnifiedModels_getCoreById(result) ==
    IF result.ok THEN Ok(toModelCore(result.value)) ELSE Err(result.error)

\* versions in the shape of the list and detail endpoints and of the dedicated
\* version endpoint, with and without the optional field
CoreVersions ==
    {JsonObject(keys, id, at) :
        id \in Ids, at \in PublishedAts,
        keys \in {VersionCommonFields \cup ListVariantFields,
                  (VersionCommonFields \ {"baseModelType"}) \cup ListVariantFields,
                  VersionCommonFields \cup {"modelId"},
                  (VersionCommonFields \ {"baseModelType"}) \cup {"modelId"}}}

\* models of the list and detail endpoints: with or without a creator, holding
\* no version or one version
CoreModels ==
    {Spread(JsonObject(keys, id, "null"), "modelVersions", versions) :
        id \in Ids,
        keys \in {ModelCommonFields, ModelCommonFields \ {"creator"}},
        versions \in {<<>>} \cup {<<v>> : v \in {w \in CoreVersions :
                                                   w["id"] = 1 /\ w["publishedAt"] = "null"}}}

CoreInit ==
    /\ platform = "posix"
    /\ \E version \in CoreVersions, model \in CoreModels :
          input = [version |-> version, model |-> model]
    /\ basePath = Unused
    /\ sanitizer = Unused
    /\ disk = Unused
    /\ db = Unused
    /\ acc = [fetched |-> FALSE]
    /\ pc = "ready"
    /\ ret = NoCall
    /\ prev = [kind |-> "none", val |-> <<>>]

CoreReturn(op, fetched, r) ==
    /\ pc = "ready"
    /\ pc' = "done"
    /\ acc' = [fetched |-> fetched]
    /\ ret' = [op |-> op, kind |-> IF r.ok THEN "ok" ELSE "err",
               val |-> IF r.ok THEN r.value ELSE EmptyObject]
    /\ UNCHANGED <<platform, sanitizer, basePath, input, prev, disk, db>>

\* client.unifiedModelVersions.getCoreById(id): the server answers with the
\* version or the request fails
Core_getVersionCoreById ==
    \E result \in {Ok(input.version), Err([type |-> "NETWORK_ERROR"])} :
       CoreReturn("modelVersions.getCoreById", result.ok,
                  UnifiedModelVersions_getCoreById(result))

\* client.unifiedModels.getCoreById(id)
Core_getModelCoreById ==
    \E result \in {Ok(input.model), Err([type |-> "NETWORK_ERROR"])} :
       CoreReturn("models.getCoreById", result.ok, UnifiedModels_getCoreById(result))

CoreNext ==
    \/ Core_getVersionCoreById
    \/ Core_getModelCoreById

SpecCore == CoreInit /\ [][CoreNext]_vars

\* core holds exactly the common fields of source, each with the source's value
IsCoreOf(core, source, common, optional) ==
    /\ DOMAIN core = common \cap DOMAIN source
    /\ (common \ optional) \subseteq DOMAIN core
    /\ \A k \in DOMAIN core : core[k] = source[k]

getSettings(store) ==
    IF store.configured THEN Ok([basePath |-> store.basePath])
    ELSE Err("Settings not configured")

\* a call that returns value, or lets the exception of getSettings() through
Throws(error) == [kind |-> "throws", val |-> error]

Returns(value) == [kind |-> "ok", val |-> value]

\* createFileLayoutBuilder()
createFileLayoutBuilder(plat, store) ==
    LET settings == getSettings(store)
    IN  IF ~settings.ok THEN Throws(settings.error)
        ELSE Returns(FileLayoutBuilder(plat, settings.value.basePath))

\* createModelLayout(model)
createModelLayout(plat, store, model) ==
    LET settings == getSettings(store)
    IN  IF ~settings.ok THEN Throws(settings.error)
        ELSE Returns(ModelLayout(plat, model, settings.value.basePath))

\* createVersionLayout(model, version)
createVersionLayout(plat, store, model, version) ==
    LET settings == getSettings(store)
    IN  IF ~settings.ok THEN Throws(settings.error)
        ELSE Returns(VersionLayout(plat, model, version, settings.value.basePath))

\* the settings file: not configured, or configured with a base directory
SettingsStores ==
    {[configured |-> FALSE, basePath |-> <<>>]}
      \cup {[configured |-> TRUE, basePath |-> b] : b \in Bases}

FactoryInit ==
    /\ platform \in Platforms
    /\ disk \in SettingsStores
    /\ \E modelType \in ModelTypes, modelId \in Ids, versionId \in Ids :
          input = [model |-> [type |-> modelType, id |-> modelId,
                              modelVersions |-> <<[id |-> versionId, files |-> <<>>,
                                                   images |-> <<>>]>>],
                   version |-> [id |-> versionId, files |-> <<>>, images |-> <<>>]]
    /\ basePath = Unused
    /\ sanitizer = Unused
    /\ db = Unused
    /\ acc = Unused
    /\ pc = "ready"
    /\ ret = NoCall
    /\ prev = [kind |-> "none", val |-> <<>>]

FactoryReturn(op, r) ==
    /\ pc = "ready"
    /\ pc' = "done"
    /\ ret' = [op |-> op, kind |-> r.kind, val |-> r.val]
    /\ UNCHANGED <<platform, sanitizer, basePath, input, prev, disk, db, acc>>

Factory_createFileLayoutBuilder ==
    FactoryReturn("createFileLayoutBuilder", createFileLayoutBuilder(platform, disk))

Factory_createModelLayout ==
    FactoryReturn("createModelLayout", createModelLayout(platform, disk, input.model))

Factory_createVersionLayout ==
    FactoryReturn("createVersionLayout",
                  createVersionLayout(platform, disk, input.model, input.version))

FactoryNext ==
    \/ Factory_createFileLayoutBuilder
    \/ Factory_createModelLayout
    \/ Factory_createVersionLayout

SpecFactory == FactoryInit /\ [][FactoryNext]_vars

\* C20: no operation of the layout core raises; the factory functions return
\* also when no settings are configured.
C20_NoRaise == ret.kind # "throws"

\* C20 for the scan: a listing that fails, also after the directory disappeared
\* between the existence check and the listing, ends in an error result
C20_ScanReturnsResult ==
    (pc = "done" /\ ret.op = "scanMediaDirectory") => ret.kind \in {"ok", "err"}

\* C20 for the factory functions when settings are configured
C20_ConfiguredFactories == disk.configured => ret.kind # "throws"

\* ------------------------------------------------------------------ concurrent disk checks

MaxCalls == 2 \* disk checks running at the same time

\* mutant: the existence check creates the entry it looks for
AfterAccess_Create(d, path) == [d EXCEPT !.present = @ \cup {path}]

\* the filesystem after fs.access(path) / readdir(path): as it was
AfterAccess(d, path) == d

\* the result of a call: a list on success, the error on failure
ParResult(r) ==
    [kind |-> IF r.ok THEN "ok" ELSE "err",
     val |-> IF r.ok THEN r.value ELSE <<>>,
     error |-> IF r.ok THEN {} ELSE {r.error}]

ParVersions ==
    { [id |-> 2, files |-> <<>>, images |-> <<>>],
      [id |-> 2, files |-> <<[id |-> 1, name |-> <<"a">>], [id |-> 2, name |-> <<"b">>]>>,
       images |-> <<>>],
      [id |-> 2, files |-> <<[id |-> 1, name |-> <<"a">>], [id |-> NaNId, name |-> <<"b">>]>>,
       images |-> <<>>] }

\* the media directory as readdir lists it
ParListings ==
    { <<>>,
      <<[name |-> <<"2", "_">>, isFile |-> TRUE], [name |-> <<"2">>, isFile |-> TRUE],
        [name |-> <<"1">>, isFile |-> TRUE]>>,
      <<[name |-> <<"1", ".", "b">>, isFile |-> TRUE],
        [name |-> <<"1", ".", "a">>, isFile |-> TRUE]>> }

ParModel(version) == [type |-> LORA, id |-> 1, modelVersions |-> <<version>>]

ParLayout(version) == VersionLayout(platform, ParModel(version), version, <<"/", "b">>)

ParInit ==
    /\ platform \in Platforms
    /\ sanitizer = "replace"
    /\ basePath = FileLayoutBuilder(platform, <<"/", "b">>)
    /\ \E version \in ParVersions, ops \in [1..MaxCalls -> {"scanMediaDirectory", "checkFilesOnDisk"}],
          exists \in BOOLEAN, listing \in ParListings :
          LET paths == {OwnPath(platform, sanitizer, basePath, ParModel(version), version,
                                version.files[i]) :
                          i \in {i \in 1..Len(version.files) : version.files[i].id # NaNId}}
          IN  \E present \in SUBSET paths :
                /\ exists \/ listing = <<>>
                /\ disk = [present |-> present, failing |-> {},
                           exists |-> exists, listing |-> listing]
                /\ input = [ops |-> ops, version |-> version, disk |-> disk,
                            mediaPath |-> getVersionMediaPath(platform, basePath, LORA, 1, 2)]
    /\ pc = [p \in 1..MaxCalls |-> "ready"]
    /\ ret = [p \in 1..MaxCalls |-> [kind |-> "none", val |-> <<>>, error |-> {}]]
    /\ acc = [p \in 1..MaxCalls |-> [i |-> 1, existingFiles |-> <<>>, overlapped |-> FALSE]]
    /\ prev = [kind |-> "none", val |-> <<>>]
    /\ db = Unused

\* another call is between two of its awaits
OthersRunning(p) == \E q \in (1..MaxCalls) \ {p} : pc[q] \notin {"ready", "done"}

ParStep(p, position, result, locals) ==
    /\ pc' = [pc EXCEPT ![p] = position]
    /\ ret' = [ret EXCEPT ![p] = result]
    /\ acc' = [acc EXCEPT ![p] = [locals EXCEPT !.overlapped = @ \/ OthersRunning(p)]]
    /\ UNCHANGED <<platform, sanitizer, basePath, input, prev, db>>

\* scanMediaDirectory of call p up to its first await: the existence check
Par_pathExists(p) ==
    /\ input.ops[p] = "scanMediaDirectory"
    /\ pc[p] = "ready"
    /\ disk' = AfterAccess(disk, input.mediaPath)
    /\ IF ~pathExists(disk)
       THEN ParStep(p, "done", ParResult(Ok(<<>>)), acc[p])
       ELSE ParStep(p, "readdir", ret[p], acc[p])

\* the directory listing of call p, then its loop and sort
Par_readdir(p) ==
    /\ pc[p] = "readdir"
    /\ disk' = AfterAccess(disk, input.mediaPath)
    /\ ParStep(p, "done",
               IF ~disk.exists THEN ParResult(Err("ENOENT"))
               ELSE ParResult(Ok(sortByMediaId(
                        CollectMediaFiles(platform, input.mediaPath, disk.listing)))),
               acc[p])

\* checkFilesOnDisk of call p: one round of the loop, up to and including its
\* await of pathExists, or the return after the last file
Par_checkFile(p) ==
    /\ input.ops[p] = "checkFilesOnDisk"
    /\ pc[p] \in {"ready", "loop"}
    /\ LET files == input.version.files
           i == acc[p].i
           filePathResult == getFilePath(platform, sanitizer, ParLayout(input.version),
                                         files[i].id)
       IN  IF i > Len(files)
           THEN /\ disk' = disk
                /\ ParStep(p, "done", ParResult(Ok(acc[p].existingFiles)), acc[p])
           ELSE IF ~filePathResult.ok
           THEN /\ disk' = disk
                /\ ParStep(p, "done", ParResult(Err(filePathResult.error)), acc[p])
           ELSE /\ disk' = AfterAccess(disk, filePathResult.value)
                /\ ParStep(p, "loop", ret[p],
                           [acc[p] EXCEPT
                              !.i = i + 1,
                              !.existingFiles =
                                  IF pathExistsFile(disk, filePathResult.value)
                                  THEN Append(@, files[i].id) ELSE @])

ParNext ==
    \/ \E p \in 1..MaxCalls : Par_pathExists(p)
    \/ \E p \in 1..MaxCalls : Par_readdir(p)
    \/ \E p \in 1..MaxCalls : Par_checkFile(p)

SpecPar == ParInit /\ [][ParNext]_vars

\* the result call p has when it runs alone on the filesystem the calls started on
Alone(p) ==
    IF input.ops[p] = "checkFilesOnDisk"
    THEN ParResult(checkFilesOnDisk(platform, sanitizer, ParLayout(input.version),
                                    input.disk, 1, <<>>))
    ELSE IF ~input.disk.exists THEN ParResult(Ok(<<>>))
    ELSE ParResult(Ok(sortByMediaId(
             CollectMediaFiles(platform, input.mediaPath, input.disk.listing))))

\* C21: the disk checks leave the filesystem as it was, and however the steps of
\* concurrent calls interleave, every call returns what it returns when the calls
\* run one after another.
C21_ReadOnlyOrderFree ==
    /\ disk = input.disk
    /\ \A p \in 1..MaxCalls : pc[p] = "done" => ret[p] = Alone(p)

\* a scan and a file check have both returned, each having taken steps while the
\* other was between two awaits
C21_Witness ==
    /\ \A p \in 1..MaxCalls : pc[p] = "done" /\ acc[p].overlapped
    /\ \E p, q \in 1..MaxCalls :
          /\ input.ops[p] = "scanMediaDirectory" /\ ret[p].val # <<>>
          /\ input.ops[q] = "checkFilesOnDisk" /\ ret[q].val # <<>>

\* ------------------------------------------------------------------ settings page

MaxSubmits == 2 \* submits of the settings form in one visit of the page

\* null / undefined, and a value that is there
Absent == {}

Some(v) == {v}

TheValue(option) == CHOOSE v \in option : TRUE

\* the component's state at mount: useState(null), useState(true), useState(null),
\* useState(false), and useActionState(action, initialSettings), whose state starts
\* as the value initialSettings has at mount and, as React's hook does, is changed
\* by the action's return values only
PageMount ==
    [initialSettings |-> Absent, loading |-> TRUE, error |-> Absent,
     isInitialSetup |-> FALSE, settings |-> Absent, isPending |-> FALSE]

\* loadSettings: the state updates made for a response of GET /settings
loadSettings(state, response) ==
    [ IF response.kind = "throws"
      THEN [state EXCEPT !.error = Some("Can't communicate with server")]
      ELSE IF response.kind = "error"
      THEN [state EXCEPT !.error = Some("Failed to load settings")]
      ELSE [state EXCEPT !.initialSettings = response.data,
                         !.isInitialSetup = (response.data = Absent)]
      EXCEPT !.loading = FALSE ]

\* formData.get(name) as string || undefined
OrUndefined(text) == IF text = "" THEN Absent ELSE Some(text)

\* the Settings object the action builds from the form data
updatedSettings(formData) ==
    [civitai_api_token |-> formData.civitai_api_token,
     basePath |-> formData.basePath,
     http_proxy |-> OrUndefined(formData.http_proxy),
     gopeed_api_host |-> formData.gopeed_api_host,
     gopeed_api_token |-> OrUndefined(formData.gopeed_api_token)]

\* mutant: a failed save clears the settings state
submitAction_Clear(state, response) ==
    IF response.kind = "ok"
    THEN [state EXCEPT !.settings = response.data, !.isInitialSetup = FALSE,
                       !.isPending = FALSE]
    ELSE [state EXCEPT !.settings = Absent, !.isPending = FALSE]

\* the action of useActionState for a response of POST /settings: its return
\* value becomes the settings state
submitAction(state, response) ==
    IF response.kind = "ok"
    THEN [state EXCEPT !.settings = response.data, !.isInitialSetup = FALSE,
                       !.isPending = FALSE]
    ELSE [state EXCEPT !.isPending = FALSE]

\* value || ''
OrEmpty(option) == IF option = Absent THEN "" ELSE TheValue(option)

\* formValues: the values the form is rendered with
formValues(settings) ==
    IF settings # Absent
    THEN LET s == TheValue(settings)
         IN  [civitai_api_token |-> s.civitai_api_token,
              basePath |-> s.basePath,
              http_proxy |-> OrEmpty(s.http_proxy),
              gopeed_api_host |-> s.gopeed_api_host,
              gopeed_api_token |-> OrEmpty(s.gopeed_api_token)]
    ELSE [civitai_api_token |-> "", basePath |-> "", http_proxy |-> "",
          gopeed_api_host |-> "", gopeed_api_token |-> ""]

\* what SettingsPage returns
Render(state) ==
    IF state.loading THEN "Loading..."
    ELSE IF state.error # Absent THEN "Alert"
    ELSE "Form"

\* settings the server may hold, and what the user may type
PageSettings ==
    {[civitai_api_token |-> "k", basePath |-> b, http_proxy |-> p,
      gopeed_api_host |-> "h", gopeed_api_token |-> Absent] :
        b \in {"/a", "/b"}, p \in {Absent, Some("x")}}

PageFormData ==
    {[civitai_api_token |-> t, basePath |-> b, http_proxy |-> p,
      gopeed_api_host |-> "h", gopeed_api_token |-> ""] :
        t \in {"", "k"}, b \in {"/a", "/b"}, p \in {"", "x"}}

\* the server: the settings it holds, and whether GET /settings answers, answers
\* with an error (settings file invalid) or cannot be reached
PageInit ==
    /\ db \in {[settings |-> s, health |-> h] :
                 s \in {Absent} \cup {Some(x) : x \in PageSettings},
                 h \in {"ok", "invalid", "down"}}
    /\ acc = PageMount
    /\ pc = "loading"
    /\ input = [submits |-> 0, formData |-> Absent]
    /\ ret = [op |-> "none", kind |-> "none", data |-> Absent]
    /\ prev = [got |-> "none", saved |-> FALSE, before |-> PageMount]
    /\ platform = Unused
    /\ sanitizer = Unused
    /\ basePath = Unused
    /\ disk = Unused

\* useEffect: loadSettings, from the request to the state the response leaves
Page_loadSettings ==
    /\ pc = "loading"
    /\ LET response == IF db.health = "down" THEN [kind |-> "throws", data |-> Absent]
                       ELSE IF db.health = "invalid" THEN [kind |-> "error", data |-> Absent]
                       ELSE [kind |-> "ok", data |-> db.settings]
       IN  /\ acc' = loadSettings(acc, response)
           /\ ret' = [op |-> "GET", kind |-> response.kind, data |-> response.data]
           /\ prev' = [prev EXCEPT !.got = IF response.kind # "ok" THEN response.kind
                                           ELSE IF response.data = Absent THEN "null"
                                           ELSE "data"]
    /\ pc' = "idle"
    /\ UNCHANGED <<platform, sanitizer, basePath, input, disk, db>>

\* the user submits the form: possible while the form is rendered and its button
\* is not disabled
Page_submit ==
    /\ pc = "idle"
    /\ Render(acc) = "Form"
    /\ ~acc.isPending
    /\ input.submits < MaxSubmits
    /\ \E formData \in PageFormData :
          input' = [submits |-> input.submits + 1, formData |-> Some(formData)]
    /\ acc' = [acc EXCEPT !.isPending = TRUE]
    /\ pc' = "posting"
    /\ UNCHANGED <<platform, sanitizer, basePath, ret, prev, disk, db>>

\* POST /settings answers: the server saves and returns the validated data, or
\* answers with an error, or the request fails
Page_postResponse ==
    /\ pc = "posting"
    /\ LET data == updatedSettings(TheValue(input.formData))
       IN  \E kind \in {"ok", "error", "throws"} :
             /\ kind = "ok" => data.civitai_api_token # ""
             /\ LET response == [kind |-> kind,
                                 data |-> IF kind = "ok" THEN Some(data) ELSE Absent]
                IN  /\ acc' = submitAction(acc, response)
                    /\ ret' = [op |-> "POST", kind |-> kind, data |-> response.data]
                    /\ db' = IF kind = "ok" THEN [db EXCEPT !.settings = Some(data)] ELSE db
                    /\ prev' = [prev EXCEPT !.saved = @ \/ kind = "ok", !.before = acc]
    /\ pc' = "idle"
    /\ UNCHANGED <<platform, sanitizer, basePath, input, disk>>

PageNext ==
    \/ Page_loadSettings
    \/ Page_submit
    \/ Page_postResponse

SpecPage == PageInit /\ [][PageNext]_vars

\* C22: once loading has finished the page shows the form, whether the settings
\* do not exist, exist, or could not be loaded.
C22_FormReachable == ~acc.loading => Render(acc) = "Form"

\* C22 for the responses of GET /settings that are not errors
C22_FormAfterLoad ==
    (~acc.loading /\ prev.got \in {"null", "data"}) => Render(acc) = "Form"

\* C23: when the server holds settings, the form is rendered after loading, before
\* any submit, with the values GET /settings returned.
C23_ShowsCurrentValues ==
    (pc = "idle" /\ prev.got = "data" /\ input.submits = 0) =>
      /\ Render(acc) = "Form"
      /\ formValues(acc.settings) = formValues(db.settings)

\* the settings GET /settings returned are in the initialSettings state
C23_InitialSettingsLoaded ==
    (pc = "idle" /\ prev.got = "data" /\ input.submits = 0) =>
      acc.initialSettings = db.settings

\* C24: after loading, isInitialSetup is true exactly when GET /settings returned
\* null and no submit has succeeded since; a successful POST sets it to false and
\* makes the settings state the data the server returned; a failed POST leaves
\* the settings state and isInitialSetup as they were.
C24_InitialSetupMode ==
    /\ ~acc.loading => (acc.isInitialSetup <=> (prev.got = "null" /\ ~prev.saved))
    /\ (pc = "idle" /\ ret.op = "POST" /\ ret.kind = "ok") =>
         /\ ~acc.isInitialSetup
         /\ acc.settings = ret.data
    /\ (pc = "idle" /\ ret.op = "POST" /\ ret.kind # "ok") =>
         /\ acc.settings = prev.before.settings
         /\ acc.isInitialSetup = prev.before.isInitialSetup

\* a first setup in which a save failed after an earlier one had succeeded
C24_Witness ==
    /\ pc = "idle"
    /\ prev.got = "null"
    /\ ret.op = "POST" /\ ret.kind # "ok"
    /\ prev.saved
    /\ acc.settings # Absent
    /\ ~acc.isInitialSetup

\* ------------------------------------------------------------------ batch fetch

MaxBatchIds == 3 \* most ids in one batch fetch

\* client.get(path): a promise that is fulfilled with a Result, ok(entity) or
\* err(CivitaiError)
get(server, id) ==
    IF server[id] THEN Ok([id |-> id]) ELSE Err([type |-> "NOT_FOUND", id |-> id])

\* UnifiedModelVersionsEndpointImpl.getById
UnifiedModelVersions_getById(server, id) ==
    LET result == get(server, id)
    IN  IF result.ok THEN Ok(result.value) ELSE Err(result.error)

\* UnifiedModelsEndpointImpl.getUnifiedById
getUnifiedById(server, id) ==
    LET result == get(server, id)
    IN  IF result.ok THEN Ok(result.value) ELSE Err(result.error)

\* mutant: the results in the order the promises were fulfilled in
PromiseAll_Settled(settled, order) == [k \in 1..Len(order) |-> settled[order[k]]]

\* await Promise.all(promises), every promise being fulfilled: the values in the
\* order of the promises
PromiseAll(settled, order) == [i \in 1..Len(order) |-> settled[i]]

\* the loop over the results, from result i on
RECURSIVE CollectResults(_, _, _)
CollectResults(results, i, entities) ==
    IF i > Len(results) THEN Ok(entities)
    ELSE IF ~results[i].ok THEN Err(results[i].error)
    ELSE CollectResults(results, i + 1, Append(entities, results[i].value))

FetchIds == 1..3

FetchInit ==
    /\ db \in [FetchIds -> BOOLEAN]
    /\ \E ids \in SeqsUpTo(FetchIds, MaxBatchIds) : input = [ids |-> ids]
    /\ pc = "ready"
    /\ acc = [op |-> "none", settled |-> <<>>, pending |-> {}]
    /\ prev = [kind |-> "order", val |-> <<>>]
    /\ ret = NoCall
    /\ platform = Unused
    /\ sanitizer = Unused
    /\ basePath = Unused
    /\ disk = Unused

\* ids.map(id => ...): one fetch per id is started
FetchStart(op) ==
    /\ pc = "ready"
    /\ pc' = "fetching"
    /\ acc' = [op |-> op,
               settled |-> [i \in 1..Len(input.ids) |-> Err([type |-> "PENDING", id |-> 0])],
               pending |-> 1..Len(input.ids)]
    /\ UNCHANGED <<platform, sanitizer, basePath, input, ret, prev, disk, db>>

Fetch_getBatch == FetchStart("getBatch")

Fetch_getUnifiedBatch == FetchStart("getUnifiedBatch")

\* one of the fetches that are under way completes
Fetch_settle ==
    /\ pc = "fetching"
    /\ \E i \in acc.pending :
          /\ acc' = [acc EXCEPT
                       !.pending = @ \ {i},
                       !.settled[i] = IF acc.op = "getBatch"
                                      THEN UnifiedModelVersions_getById(db, input.ids[i])
                                      ELSE getUnifiedById(db, input.ids[i])]
          /\ prev' = [prev EXCEPT !.val = Append(@, i)]
    /\ UNCHANGED <<platform, sanitizer, basePath, input, pc, ret, disk, db>>

\* every fetch has completed: Promise.all is fulfilled and the loop runs
Fetch_return ==
    /\ pc = "fetching"
    /\ acc.pending = {}
    /\ pc' = "done"
    /\ LET r == CollectResults(PromiseAll(acc.settled, prev.val), 1, <<>>)
       IN  ret' = [op |-> acc.op, kind |-> IF r.ok THEN "ok" ELSE "err",
                   val |-> IF r.ok THEN r.value ELSE <<r.error>>]
    /\ UNCHANGED <<platform, sanitizer, basePath, input, prev, disk, db, acc>>

FetchNext ==
    \/ Fetch_getBatch
    \/ Fetch_getUnifiedBatch
    \/ Fetch_settle
    \/ Fetch_return

SpecFetch == FetchInit /\ [][FetchNext]_vars

\* the positions in ids of the ids whose fetch fails
Failing == {i \in 1..Len(input.ids) : ~db[input.ids[i]]}

\* C25: a batch fetch is all-or-nothing: when every fetch succeeds it returns one
\* entity per id in the order of ids, whatever order the fetches completed in;
\* otherwise it returns only the error of the failing id that comes first in ids.
C25_AllOrNothing ==
    pc = "done" =>
      IF Failing = {}
      THEN /\ ret.kind = "ok"
           /\ ret.val = [i \in 1..Len(input.ids) |-> [id |-> input.ids[i]]]
      ELSE /\ ret.kind = "err"
           /\ LET first == CHOOSE i \in Failing : \A j \in Failing : i <= j
              IN  ret.val = <<[type |-> "NOT_FOUND", id |-> input.ids[first]]>>

\* a batch has returned the error of an id whose fetch failed after the fetch of
\* a later id had failed
C25_Witness ==
    /\ pc = "done"
    /\ ret.kind = "err"
    /\ \E k \in 1..Len(prev.val) :
          /\ input.ids[prev.val[k]] = ret.val[1].id
          /\ \E j \in 1..(k - 1) :
                /\ prev.val[j] \in Failing
                /\ prev.val[j] > prev.val[k]
                /\ input.ids[prev.val[j]] # ret.val[1].id

\* ------------------------------------------------------------------ extractAllModelInfo

Safetensors == <<".", "s", "a", "f", "e", "t", "e", "n", "s", "o", "r", "s">>

\* String.prototype.split(separator) for a separator of one character
split(str, separator) ==
    LET seps == {i \in 1..Len(str) : str[i] = separator}
        SepAt(k) == IF k = 0 THEN 0
                    ELSE IF k > Cardinality(seps) THEN Len(str) + 1
                    ELSE CHOOSE i \in seps : Cardinality({j \in seps : j < i}) = k - 1
    IN  [k \in 1..(Cardinality(seps) + 1) |-> SubSeq(str, SepAt(k - 1) + 1, SepAt(k) - 1)]

\* String.prototype.replace(pattern, replacement) for a text pattern: the first
\* occurrence is replaced
replace(str, pattern, replacement) ==
    LET at == {i \in 1..(Len(str) - Len(pattern) + 1) :
                 SubSeq(str, i, i + Len(pattern) - 1) = pattern}
    IN  IF at = {} THEN str
        ELSE LET i == CHOOSE k \in at : \A j \in at : k <= j
             IN  SubSeq(str, 1, i - 1) \o replacement
                   \o SubSeq(str, i + Len(pattern), Len(str))

UnknownType == <<"u", "n", "k", "n", "o", "w", "n">>

\* parts[parts.length - k], undefined before the first part
PartFromEnd(parts, k) == IF Len(parts) - k >= 1 THEN {parts[Len(parts) - k]} ELSE {}

\* Number(undefined) is NaN
NumberOfPart(part) == IF part = {} THEN NaN ELSE Number(CHOOSE p \in part : TRUE)

\* the callback of map, with the separator the path is split by: null (no entry)
\* or the entry of one path
ModelInfoSplitBy(plat, filePath, separator) ==
    LET normalizedPath == normalize(plat, filePath)
        parts == split(normalizedPath, separator)
        fileName == parts[Len(parts)]
        typePart == PartFromEnd(parts, 3)
    IN  IF Len(parts) < 3 THEN {}
        ELSE IF fileName = <<>> \/ ~EndsWith(fileName, Safetensors) THEN {}
        ELSE {[modelType |-> IF typePart = {} \/ typePart = {<<>>} THEN UnknownType
                             ELSE CHOOSE p \in typePart : TRUE,
               modelId |-> NumberOfPart(PartFromEnd(parts, 2)),
               versionId |-> NumberOfPart(PartFromEnd(parts, 1)),
               filePath |-> normalizedPath,
               fileName |-> replace(fileName, Safetensors, <<>>)]}

\* mutant: the path is split by "/" on every platform
ModelInfoOf_Slash(plat, filePath) == ModelInfoSplitBy(plat, filePath, "/")

\* normalizedPath.split(sep) and the entry built from the parts
ModelInfoOf(plat, filePath) == ModelInfoSplitBy(plat, filePath, Sep(plat))

\* extractAllModelInfo: map, then filter(info => info !== null)
RECURSIVE extractAllModelInfo(_, _)
extractAllModelInfo(plat, filePaths) ==
    IF filePaths = <<>> THEN <<>>
    ELSE LET info == ModelInfoOf(plat, Head(filePaths))
             rest == extractAllModelInfo(plat, Tail(filePaths))
         IN  IF info = {} THEN rest ELSE <<CHOOSE x \in info : TRUE>> \o rest


MaxPrefixLen == 1 \* longest generated text before the extension of a weight file

\* display names of files: with and without the weight-file extension
ReverseNames ==
    LET prefixes == StringsUpTo(NameChars, MaxPrefixLen)
    IN  {p \o Safetensors : p \in prefixes} \cup prefixes \cup {ExampleFileName}

ReverseInit ==
    /\ platform \in Platforms
    /\ sanitizer \in Sanitizers
    /\ \E b \in Bases, t \in ModelTypes, m \in Ids \cup {456}, v \in Ids \cup {10},
          n \in ReverseNames :
          /\ basePath = FileLayoutBuilder(platform, b)
          /\ input = [baseArg |-> b, modelType |-> t, modelId |-> m, versionId |-> v,
                      file |-> [id |-> 1, name |-> n]]
    /\ pc = "ready"
    /\ ret = NoCall
    /\ prev = [kind |-> "none", val |-> <<>>]
    /\ disk = Unused
    /\ db = Unused
    /\ acc = Unused

\* the path of the file in the layout
Reverse_getModelFilePath ==
    /\ pc = "ready"
    /\ pc' = "path"
    /\ ret' = [op |-> "getModelFilePath", kind |-> "file",
               val |-> getModelFilePath(platform, sanitizer, basePath, input.modelType,
                                        input.modelId, input.versionId, input.file)]
    /\ UNCHANGED <<platform, sanitizer, basePath, input, prev, disk, db, acc>>

\* extractAllModelInfo([path])
Reverse_extractAllModelInfo ==
    /\ pc = "path"
    /\ pc' = "done"
    /\ ret' = [op |-> "extractAllModelInfo", kind |-> "entries",
               val |-> extractAllModelInfo(platform, <<ret.val>>)]
    /\ UNCHANGED <<platform, sanitizer, basePath, input, prev, disk, db, acc>>

ReverseNext ==
    \/ Reverse_getModelFilePath
    \/ Reverse_extractAllModelInfo

SpecReverse == ReverseInit /\ [][ReverseNext]_vars

\* the file is a weight file: its sanitized name ends in .safetensors
IsWeightFile == EndsWith(sanitizeFileName(sanitizer, input.file.name), Safetensors)

\* C26: for a file whose sanitized name ends in .safetensors, extractAllModelInfo
\* applied to the path getModelFilePath gives returns exactly one entry, with the
\* model type, model id and version id the path was built from.
C26_Reversible ==
    (pc = "done" /\ IsWeightFile) =>
      /\ Len(ret.val) = 1
      /\ ret.val[1].modelType = input.modelType
      /\ ret.val[1].modelId = FromInt(input.modelId)
      /\ ret.val[1].versionId = FromInt(input.versionId)

\* the path of a weight file whose display name holds a separator, under a base
\* directory that had to be normalised, has been reversed
C26_Witness ==
    /\ pc = "done"
    /\ IsWeightFile
    /\ Len(ret.val) = 1
    /\ input.versionId = 10
    /\ input.baseArg = <<".", "/", "b", "/", "/", "c">>
    /\ \E i \in 1..Len(input.file.name) : IsReservedChar(input.file.name[i])

\* ------------------------------------------------------------------ paths found by a scan

MaxPaths == 2 \* most paths given to extractAllModelInfo in one call

\* a path written with "/", in the platform's notation
Native(plat, p) == [i \in 1..Len(p) |-> IF p[i] = "/" THEN Sep(plat) ELSE p[i]]

\* paths of the layout, and paths that are too short, have an id segment that is
\* not a number or not an integer, or have another extension
ExtractPaths ==
    { <<"/", "b", "/", "T", "/", "1", "/", "2", "/", "f">> \o Safetensors,
      <<"/", "b", "/", "T", "/", "2", "/", "1", "/", "g">> \o Safetensors,
      <<"/", "b", "/", "T", "/", "a", "/", "2", "/", "f">> \o Safetensors,
      <<"/", "b", "/", "T", "/", "1", "/", "1", ".", "5", "/", "f">> \o Safetensors,
      <<"/", "b", "/", "T", "/", "1", "/", "2", "/", "f", ".", "t", "x", "t">>,
      <<"/", "b", "/", "T", "/", "1", "/", "2", "/", "f">> \o Safetensors \o <<"/">>,
      <<"1", "/", "2", "/", "f">> \o Safetensors,
      <<"2", "/", "f">> \o Safetensors,
      <<"f">> \o Safetensors }

ExtractInit ==
    /\ platform \in Platforms
    /\ \E paths \in SeqsUpTo(ExtractPaths, MaxPaths) :
          input = [filePaths |-> [i \in 1..Len(paths) |-> Native(platform, paths[i])]]
    /\ pc = "ready"
    /\ ret = NoCall
    /\ prev = [kind |-> "none", val |-> <<>>]
    /\ sanitizer = Unused
    /\ basePath = Unused
    /\ disk = Unused
    /\ db = Unused
    /\ acc = Unused

\* extractAllModelInfo(filePaths)
Extract_extractAllModelInfo ==
    /\ pc = "ready"
    /\ pc' = "done"
    /\ ret' = [op |-> "extractAllModelInfo", kind |-> "entries",
               val |-> extractAllModelInfo(platform, input.filePaths)]
    /\ UNCHANGED <<platform, sanitizer, basePath, input, prev, disk, db, acc>>

ExtractNext == Extract_extractAllModelInfo

SpecExtract == ExtractInit /\ [][ExtractNext]_vars

\* the path has the form .../{modelType}/{modelId}/{versionId}/{name}.safetensors
\* with numeric id segments
HasLayoutForm(plat, filePath) ==
    LET segs == SplitSegments(plat, normalize(plat, filePath))
        n == Len(segs)
    IN  /\ n >= 4
        /\ segs[n - 3] # <<>>
        /\ segs[n - 2] # <<>> /\ AllDigits(segs[n - 2])
        /\ segs[n - 1] # <<>> /\ AllDigits(segs[n - 1])
        /\ EndsWith(segs[n], Safetensors)

\* the path has three parts or more and its last part ends in .safetensors
HasWeightName(plat, filePath) ==
    LET segs == SplitSegments(plat, normalize(plat, filePath))
    IN  Len(segs) >= 3 /\ EndsWith(segs[Len(segs)], Safetensors)

EntryPaths(entries) == [i \in 1..Len(entries) |-> entries[i].filePath]

NormalizedPaths(plat, filePaths) ==
    [i \in 1..Len(filePaths) |-> normalize(plat, filePaths[i])]

\* C27: the entries are those of the input paths of the layout's form, in the
\* order of the input, each with an integer model id and version id; a path that
\* is too short, has an id segment that is not numeric, or does not end in
\* .safetensors has no entry.
C27_InvalidFiltered ==
    pc = "done" =>
      /\ EntryPaths(ret.val)
           = NormalizedPaths(platform,
                             SelectSeq(input.filePaths,
                                       LAMBDA p : HasLayoutForm(platform, p)))
      /\ \A i \in 1..Len(ret.val) :
           IsInteger(ret.val[i].modelId) /\ IsInteger(ret.val[i].versionId)

\* C27 for the two checks the function makes: the entries are those of the input
\* paths of three parts or more that end in .safetensors, in the order of the input
C27_ExtensionFiltered ==
    pc = "done" =>
      EntryPaths(ret.val)
        = NormalizedPaths(platform,
                          SelectSeq(input.filePaths, LAMBDA p : HasWeightName(platform, p)))

\* ------------------------------------------------------------------ model and version records

MaxDbCalls == 3 \* upsert and delete calls made in one run

DbModelIds == 1..2

DbVersionIds == 1..2

DbClients == 1..2 \* calls that may be under way at the same time

VersionRecord(d, versionId) == CHOOSE v \in d.versions : v.id = versionId

HasVersion(d, versionId) == \E v \in d.versions : v.id = versionId

\* prisma.model.upsert({where: {id}, update: {}, create: {...}})
model_upsert(d, modelId) == [d EXCEPT !.models = @ \cup {modelId}]

\* prisma.modelVersion.upsert: the update branch leaves modelId as it is, the
\* create branch needs the model record (foreign key ModelVersion_modelId_fkey)
modelVersion_upsert(d, versionId, modelId) ==
    IF HasVersion(d, versionId) THEN Ok(d)
    ELSE IF modelId \notin d.models THEN Err("foreign key constraint")
    ELSE Ok([d EXCEPT !.versions = @ \cup {[id |-> versionId, modelId |-> modelId]}])

\* prisma.modelVersion.delete({where: {id}}): fails when there is no such record
modelVersion_delete(d, versionId) ==
    IF ~HasVersion(d, versionId) THEN Err("record not found")
    ELSE Ok([d EXCEPT !.versions = @ \ {VersionRecord(d, versionId)}])

\* prisma.modelVersion.count({where: {modelId}})
modelVersion_count(d, modelId) == Cardinality({v \in d.versions : v.modelId = modelId})

\* prisma.model.delete({where: {id}}): fails when there is no such record; the
\* versions of the model go with it (ON DELETE CASCADE)
model_delete(d, modelId) ==
    IF modelId \notin d.models THEN Err("record not found")
    ELSE Ok([models |-> d.models \ {modelId},
             versions |-> {v \in d.versions : v.modelId # modelId}])

Idle == [op |-> "none", modelId |-> 0, versionId |-> 0, count |-> 0]

DbInit ==
    /\ db = [models |-> {}, versions |-> {}]
    /\ pc = [p \in DbClients |-> "idle"]
    /\ acc = [p \in DbClients |-> Idle]
    /\ input = [calls |-> 0, failed |-> FALSE, moved |-> FALSE]
    /\ ret = NoCall
    /\ prev = [kind |-> "none", val |-> <<>>]
    /\ platform = Unused
    /\ sanitizer = Unused
    /\ basePath = Unused
    /\ disk = Unused

DbStep(p, position, locals) ==
    /\ pc' = [pc EXCEPT ![p] = position]
    /\ acc' = [acc EXCEPT ![p] = locals]
    /\ UNCHANGED <<platform, sanitizer, basePath, ret, prev, disk>>

\* the call of p ends with a DatabaseError
DbThrow(p) ==
    /\ DbStep(p, "idle", Idle)
    /\ input' = [input EXCEPT !.failed = TRUE]
    /\ db' = db

\* upsertOneModelVersion(model, version) is called
Db_upsertOneModelVersion(p) ==
    /\ pc[p] = "idle"
    /\ input.calls < MaxDbCalls
    /\ \E modelId \in DbModelIds, versionId \in DbVersionIds :
          /\ DbStep(p, "findOrCreateOneModelId",
                    [op |-> "upsertOneModelVersion", modelId |-> modelId,
                     versionId |-> versionId, count |-> 0])
    /\ input' = [input EXCEPT !.calls = @ + 1]
    /\ db' = db

\* await findOrCreateOneModelId(modelId)
Db_findOrCreateOneModelId(p) ==
    /\ pc[p] = "findOrCreateOneModelId"
    /\ db' = model_upsert(db, acc[p].modelId)
    /\ DbStep(p, "modelVersion.upsert", acc[p])
    /\ input' = input

\* await prisma.modelVersion.upsert(...) and the return
Db_modelVersion_upsert(p) ==
    /\ pc[p] = "modelVersion.upsert"
    /\ LET r == modelVersion_upsert(db, acc[p].versionId, acc[p].modelId)
           otherModel == /\ HasVersion(db, acc[p].versionId)
                         /\ VersionRecord(db, acc[p].versionId).modelId # acc[p].modelId
       IN  IF r.ok
           THEN /\ db' = r.value
                /\ DbStep(p, "idle", Idle)
                /\ input' = [input EXCEPT !.moved = @ \/ otherModel]
           ELSE DbThrow(p)

\* deleteOneModelVersion(versionId, modelId) is called with the model the version
\* belongs to
Db_deleteOneModelVersion(p) ==
    /\ pc[p] = "idle"
    /\ input.calls < MaxDbCalls
    /\ \E v \in db.versions :
          DbStep(p, "modelVersion.delete",
                 [op |-> "deleteOneModelVersion", modelId |-> v.modelId,
                  versionId |-> v.id, count |-> 0])
    /\ input' = [input EXCEPT !.calls = @ + 1]
    /\ db' = db

\* await prisma.modelVersion.delete(...)
Db_modelVersion_delete(p) ==
    /\ pc[p] = "modelVersion.delete"
    /\ LET r == modelVersion_delete(db, acc[p].versionId)
       IN  IF r.ok
           THEN /\ db' = r.value
                /\ DbStep(p, "modelVersion.count", acc[p])
                /\ input' = input
           ELSE DbThrow(p)

\* await prisma.modelVersion.count(...) and the test of the count
Db_modelVersion_count(p) ==
    /\ pc[p] = "modelVersion.count"
    /\ LET remainingModelVersions == modelVersion_count(db, acc[p].modelId)
       IN  IF remainingModelVersions = 0
           THEN DbStep(p, "model.delete", [acc[p] EXCEPT !.count = remainingModelVersions])
           ELSE DbStep(p, "idle", Idle)
    /\ input' = input
    /\ db' = db

\* await prisma.model.delete(...) and the return
Db_model_delete(p) ==
    /\ pc[p] = "model.delete"
    /\ LET r == model_delete(db, acc[p].modelId)
       IN  IF r.ok
           THEN /\ db' = r.value
                /\ DbStep(p, "idle", Idle)
                /\ input' = input
           ELSE DbThrow(p)

DbNext ==
    \/ \E p \in DbClients : Db_upsertOneModelVersion(p)
    \/ \E p \in DbClients : Db_findOrCreateOneModelId(p)
    \/ \E p \in DbClients : Db_modelVersion_upsert(p)
    \/ \E p \in DbClients : Db_deleteOneModelVersion(p)
    \/ \E p \in DbClients : Db_modelVersion_delete(p)
    \/ \E p \in DbClients : Db_modelVersion_count(p)
    \/ \E p \in DbClients : Db_model_delete(p)

SpecDb == DbInit /\ [][DbNext]_vars

\* every call made so far has completed, none with an error
AllCompleted == ~input.failed /\ \A p \in DbClients : pc[p] = "idle"

NoModelWithoutVersion == \A m \in db.models : modelVersion_count(db, m) > 0

\* C28: after any sequence of successfully completed upsertOneModelVersion and
\* deleteOneModelVersion calls, interleaved or not, an upsert of an existing
\* version under another model included, every model record has a version record.
C28_NoModelWithoutVersion == AllCompleted => NoModelWithoutVersion

\* C28 for the runs in which no upsert finds its version under a model other than
\* the one it was given
C28_OwnModelUpserts == (AllCompleted /\ ~input.moved) => NoModelWithoutVersion

\* ------------------------------------------------------------------ checkModelOnDisk

\* the loop of checkModelOnDisk over modelData.modelVersions, from version i on
RECURSIVE CheckVersionsFrom(_, _, _, _, _, _)
CheckVersionsFrom(plat, impl, mi, d, i, existedModelversions) ==
    IF i > Len(mi.model.modelVersions) THEN existedModelversions
    ELSE LET version == mi.model.modelVersions[i]
             IdsOfFilesOnDisk == checkVersionFilesOnDisk(plat, impl, mi, d, version.id)
         IN  CheckVersionsFrom(plat, impl, mi, d, i + 1,
                               IF IdsOfFilesOnDisk.ok
                               THEN Append(existedModelversions,
                                           [versionId |-> version.id,
                                            filesOnDisk |-> IdsOfFilesOnDisk.value])
                               ELSE existedModelversions)

\* checkModelOnDisk(modelData)
checkModelOnDisk(plat, impl, store, modelData, d) ==
    LET settings == getSettings(store)
    IN  IF ~settings.ok THEN Throws(settings.error)
        ELSE Returns(CheckVersionsFrom(
                       plat, impl, ModelLayout(plat, modelData, settings.value.basePath),
                       d, 1, <<>>))

\* versions of a model: two with the same id, one with two files of the same id,
\* one with a file whose id is NaN, one without files
OnDiskVersions ==
    { [id |-> 2, images |-> <<>>,
       files |-> <<[id |-> 1, name |-> <<"a">>], [id |-> 2, name |-> <<"b">>]>>],
      [id |-> 2, images |-> <<>>, files |-> <<[id |-> 1, name |-> <<"b">>]>>],
      [id |-> 3, images |-> <<>>,
       files |-> <<[id |-> 1, name |-> <<"a">>], [id |-> 1, name |-> <<"b">>]>>],
      [id |-> 4, images |-> <<>>,
       files |-> <<[id |-> NaNId, name |-> <<"a">>], [id |-> 1, name |-> <<"b">>]>>],
      [id |-> 5, images |-> <<>>, files |-> <<>>] }

OnDiskModel(versions) == [type |-> LORA, id |-> 1, modelVersions |-> versions]

\* the paths of the files of the versions, each computed from its own entry
OwnPaths(plat, impl, base, model) ==
    {OwnPath(plat, impl, base, model, model.modelVersions[k], model.modelVersions[k].files[i]) :
       <<k, i>> \in {x \in (1..Len(model.modelVersions)) \X (1..MaxFiles) :
                       /\ x[2] <= Len(model.modelVersions[x[1]].files)
                       /\ model.modelVersions[x[1]].files[x[2]].id # NaNId}}

OnDiskInit ==
    /\ platform \in Platforms
    /\ sanitizer = "replace"
    /\ basePath = FileLayoutBuilder(platform, <<"/", "b">>)
    /\ \E versions \in SeqsUpTo(OnDiskVersions, MaxVersions) :
          /\ input = [model |-> OnDiskModel(versions),
                      store |-> [configured |-> TRUE, basePath |-> <<"/", "b">>]]
          /\ \E present \in SUBSET OwnPaths(platform, sanitizer, basePath, input.model) :
                disk = [present |-> present, failing |-> {}]
    /\ pc = "ready"
    /\ ret = NoCall
    /\ prev = [kind |-> "none", val |-> <<>>]
    /\ db = Unused
    /\ acc = Unused

\* checkModelOnDisk(modelData)
OnDisk_checkModelOnDisk ==
    /\ pc = "ready"
    /\ pc' = "done"
    /\ LET r == checkModelOnDisk(platform, sanitizer, input.store, input.model, disk)
       IN  ret' = [op |-> "checkModelOnDisk", kind |-> r.kind, val |-> r.val]
    /\ UNCHANGED <<platform, sanitizer, basePath, input, prev, disk, db, acc>>

\* the settings are removed before the check is made
OnDisk_removeSettings ==
    /\ pc = "ready"
    /\ input.store.configured
    /\ input' = [input EXCEPT !.store = [configured |-> FALSE, basePath |-> <<>>]]
    /\ UNCHANGED <<platform, sanitizer, basePath, pc, ret, prev, disk, db, acc>>

OnDiskNext ==
    \/ OnDisk_checkModelOnDisk
    \/ OnDisk_removeSettings

SpecOnDisk == OnDiskInit /\ [][OnDiskNext]_vars

\* the ids, in the order of version.files, of the files of a version whose own
\* path is on disk
RECURSIVE PresentFiles(_, _, _)
PresentFiles(model, version, i) ==
    IF i > Len(version.files) THEN <<>>
    ELSE IF OwnPath(platform, sanitizer, basePath, model, version, version.files[i])
              \in disk.present
         THEN <<version.files[i].id>> \o PresentFiles(model, version, i + 1)
         ELSE PresentFiles(model, version, i + 1)

\* the presence check of a version fails when the path of one of its files cannot
\* be computed
CheckFails(version) == \E i \in 1..Len(version.files) : version.files[i].id = NaNId

\* one entry per version whose check does not fail, in the order of modelVersions
RECURSIVE ExpectedEntries(_, _)
ExpectedEntries(model, i) ==
    IF i > Len(model.modelVersions) THEN <<>>
    ELSE LET version == model.modelVersions[i]
         IN  IF CheckFails(version) THEN ExpectedEntries(model, i + 1)
             ELSE <<[versionId |-> version.id,
                     filesOnDisk |-> PresentFiles(model, version, 1)]>>
                    \o ExpectedEntries(model, i + 1)

DistinctIds(items) == \A i, j \in 1..Len(items) : i # j => items[i].id # items[j].id

\* C29: checkModelOnDisk returns, in the order of modelVersions, one entry per
\* version, holding the version's id and the ids of its files present on disk; a
\* version whose presence check fails is left out, its siblings before and after
\* it are not.
C29_EntryPerVersion ==
    (pc = "done" /\ ret.kind = "ok") => ret.val = ExpectedEntries(input.model, 1)

\* C29 for the models whose versions have distinct ids and whose versions' files
\* have distinct ids
C29_DistinctIds ==
    (/\ pc = "done"
     /\ ret.kind = "ok"
     /\ DistinctIds(input.model.modelVersions)
     /\ \A k \in 1..Len(input.model.modelVersions) :
          DistinctIds(input.model.modelVersions[k].files))
      => ret.val = ExpectedEntries(input.model, 1)

\* ------------------------------------------------------------------ kinds of path

\* display names of files, among them names that look like the other entries of a
\* version directory
KindsNames ==
    StringsUpTo(NameChars, 1)
      \cup { MediaDirName, ApiInfoSuffix, Tail(ApiInfoSuffix),
             getApiInfoJsonFileName(2), MediaDirName \o <<"/", "1", "_", "a">> }

KindsUrls ==
    { UrlOrigin \o <<"/", "1", ".", "p", "n", "g">>,
      UrlOrigin \o <<"/", "1", "_", "a">>,
      UrlOrigin \o <<"/", "x", "/">> \o MediaDirName,
      UrlOrigin \o <<"/">> \o getApiInfoJsonFileName(1),
      UrlOrigin \o <<"/">> }

KindsInit ==
    /\ platform \in Platforms
    /\ sanitizer \in Sanitizers
    /\ basePath = FileLayoutBuilder(platform, <<"/", "b">>)
    /\ \E m \in Ids, v \in Ids, other \in Ids, f \in Ids, n \in KindsNames, u \in KindsUrls :
          input = [modelType |-> LORA, modelId |-> m, versionId |-> v,
                   otherVersionId |-> other,
                   file |-> [id |-> f, name |-> n],
                   image |-> [id |-> FromInt(1), url |-> u]]
    /\ pc = "ready"
    /\ ret = NoCall
    /\ prev = [kind |-> "none", val |-> <<>>]
    /\ disk = Unused
    /\ db = Unused
    /\ acc = Unused

\* the first path of a pair
KindsFirst(kind, path) ==
    /\ pc = "ready"
    /\ pc' = kind
    /\ prev' = [kind |-> kind, val |-> path]
    /\ UNCHANGED <<platform, sanitizer, basePath, input, ret, disk, db, acc>>

\* the path it is compared with
KindsSecond(kind, op, path) ==
    /\ pc = kind
    /\ pc' = "compared"
    /\ ret' = [op |-> op, kind |-> "path", val |-> path]
    /\ UNCHANGED <<platform, sanitizer, basePath, input, prev, disk, db, acc>>

Kinds_getModelFilePath ==
    KindsFirst("file", getModelFilePath(platform, sanitizer, basePath, input.modelType,
                                        input.modelId, input.versionId, input.file))

Kinds_getVersionApiInfoPath ==
    KindsSecond("file", "getVersionApiInfoPath",
                getVersionApiInfoPath(platform, basePath, input.modelType, input.modelId,
                                      input.versionId))

Kinds_getVersionMediaPath ==
    KindsSecond("file", "getVersionMediaPath",
                getVersionMediaPath(platform, basePath, input.modelType, input.modelId,
                                    input.versionId))

Kinds_getMediaFilePath ==
    LET r == getMediaFilePath(platform, basePath, input.modelType, input.modelId,
                              input.versionId, input.image)
    IN  /\ r.ok
        /\ KindsSecond("file", "getMediaFilePath", r.value)

Kinds_getModelApiInfoPath ==
    KindsFirst("modelInfo", getModelApiInfoPath(platform, basePath, input.modelType,
                                                input.modelId))

Kinds_getVersionPath ==
    KindsSecond("modelInfo", "getVersionPath",
                getVersionPath(platform, basePath, input.modelType, input.modelId,
                               input.otherVersionId))

KindsNext ==
    \/ Kinds_getModelFilePath
    \/ Kinds_getVersionApiInfoPath
    \/ Kinds_getVersionMediaPath
    \/ Kinds_getMediaFilePath
    \/ Kinds_getModelApiInfoPath
    \/ Kinds_getVersionPath

SpecKinds == KindsInit /\ [][KindsNext]_vars

\* C30: inside one version directory the path of a file differs from the version's
\* metadata path, from its media directory and from the path of every media file,
\* and a model's metadata path differs from the path of every version directory.
C30_KindsDisjoint == pc = "compared" => ret.val # prev.val

\* the path of a file whose display name is the name of the media directory has
\* been compared with the media directory
C30_Witness ==
    /\ pc = "compared"
    /\ ret.op = "getVersionMediaPath"
    /\ input.file.name = MediaDirName
    /\ prev.kind = "file"

====
